---- MODULE Spec2Model ----
(***************************************************************************)
(* A model of the beacon-chain state-transition core of prysm:             *)
(*   - core/state transition.go (src/unnamed/part_000): ProcessSlot,       *)
(*     ProcessSlots with the skip-slot cache, ProcessBlock and its         *)
(*     pipeline, VerifyOperationLengths, ExecuteStateTransition,           *)
(*     ExecuteStateTransitionNoVerifyAnySig, CalculateStateRoot;           *)
(*   - core/blocks/deposit.go: ProcessDeposit, ProcessDeposits,            *)
(*     ProcessPreGenesisDeposits.                                          *)
(* Hashes are modelled as collision-free: the root of a value is a tagged  *)
(* tuple of the roots of its fields, in the field order of the container.  *)
(* The configuration presets (SLOTS_PER_EPOCH, ...) are scaled down.       *)
(***************************************************************************)
EXTENDS Integers, Sequences, FiniteSets, TLC

VARIABLES
  bstate,   \* operations specification: the beacon state object operated on
  last,     \* operations specification: the last call, its arguments and outcome
  nops,     \* operations specification: calls made so far
  procs,    \* per task: the call of ProcessSlots it is in, and its local variables
  cache,    \* SkipSlotCache: the results map, a set of [key, state]
  inProgress, \* SkipSlotCache: the keys marked in progress
  ncalls    \* calls of ProcessSlots made so far

opsVars == <<bstate, last, nops>>
stfVars == <<procs, cache, inProgress, ncalls>>
vars == <<bstate, last, nops, procs, cache, inProgress, ncalls>>

(***************************************************************************)
(* Configuration (params.BeaconConfig()), scaled.                          *)
(***************************************************************************)
SlotsPerEpoch == 2
SlotsPerHistoricalRoot == 2
MaxDeposits == 2
MaxProposerSlashings == 1
MaxAttesterSlashings == 1
MaxAttestations == 1
MaxVoluntaryExits == 1
EffectiveBalanceIncrement == 2
MaxEffectiveBalance == 4
FarFutureEpoch == 1000
\* Length of a public key in bytes (48 in the program).
PubKeyLen == 2
\* Slots of an eth1 voting period (EpochsPerEth1VotingPeriod * SlotsPerEpoch),
\* scaled so that one vote is a majority.
SlotsPerEth1VotingPeriod == 1

(***************************************************************************)
(* Bounds of the model.                                                    *)
(***************************************************************************)
\* Highest slot a state is advanced to.
MaxSlot == 3
\* Highest eth1 deposit count voted for.
MaxCount == 3
\* Most deposits in one call or block body.
MaxBlockDeposits == 2
\* Most deposit calls, and most blocks, applied to the state of the operations
\* and block specifications.
MaxOps == 1
\* Most calls of ProcessSlots.
MaxCalls == 3

ZeroHash == <<>>
BogusRoot == <<"bogus">>

Min(a, b) == IF a < b THEN a ELSE b

(***************************************************************************)
(* Public keys are byte strings; ToBytes48 pads or truncates to the fixed  *)
(* key length (bytesutil.ToBytes48).                                       *)
(***************************************************************************)
PubKeys == {<<1, 1>>, <<1, 2>>}
ToBytes48(pk) == [i \in 1..PubKeyLen |-> IF i <= Len(pk) THEN pk[i] ELSE 0]

Amounts == {EffectiveBalanceIncrement + 1, MaxEffectiveBalance, MaxEffectiveBalance + EffectiveBalanceIncrement}
FirstKey == <<1, 1>>
SecondKey == <<1, 2>>

(***************************************************************************)
(* Roots.                                                                  *)
(***************************************************************************)
HeaderRoot(h) == <<"hdr", h.slot, h.parent, h.sroot, h.body>>
HashTreeRoot(s) ==
  <<"state", s.slot, HeaderRoot(s.lbh), s.broots, s.sroots, s.eth1, s.eth1votes,
    s.dindex, s.validators, s.balances, s.epochs>>

(***************************************************************************)
(* The genesis state: one active validator, no outstanding deposit.        *)
(***************************************************************************)
GenesisValidator ==
  [pubkey |-> <<1, 1>>, eb |-> MaxEffectiveBalance, aee |-> 0, ae |-> 0,
   exit |-> FarFutureEpoch, wd |-> FarFutureEpoch]
GenesisHeader == [slot |-> 0, parent |-> ZeroHash, sroot |-> ZeroHash, body |-> ZeroHash]
Genesis ==
  [slot |-> 0,
   lbh |-> GenesisHeader,
   broots |-> [i \in 1..SlotsPerHistoricalRoot |-> ZeroHash],
   sroots |-> [i \in 1..SlotsPerHistoricalRoot |-> ZeroHash],
   eth1 |-> 1,
   eth1votes |-> <<>>,
   dindex |-> 1,
   validators |-> <<GenesisValidator>>,
   balances |-> <<MaxEffectiveBalance>>,
   valMap |-> {<<ToBytes48(<<1, 1>>), 1>>},
   epochs |-> 0]

\* A genesis state built from two deposits: the second validator is not yet
\* fully funded.
GenesisTwo ==
  [Genesis EXCEPT
     !.eth1 = 2, !.dindex = 2,
     !.validators = Append(@, [pubkey |-> SecondKey, eb |-> EffectiveBalanceIncrement,
                               aee |-> FarFutureEpoch, ae |-> FarFutureEpoch,
                               exit |-> FarFutureEpoch, wd |-> FarFutureEpoch]),
     !.balances = Append(@, EffectiveBalanceIncrement + 1),
     !.valMap = @ \cup {<<ToBytes48(SecondKey), 2>>}]

(***************************************************************************)
(* Deposits (core/blocks/deposit.go).                                      *)
(* A deposit carries its data (pubkey, amount, signature) and a Merkle     *)
(* proof; proofIndex is the leaf position at which the proof verifies      *)
(* against the state's deposit root. isNil stands for a nil deposit or nil *)
(* deposit data.                                                           *)
(***************************************************************************)
ValidatorIndexByPubkey(s, key) ==
  IF \E e \in s.valMap : e[1] = key
    THEN [ok |-> TRUE, index |-> (CHOOSE e \in s.valMap : e[1] = key)[2]]
    ELSE [ok |-> FALSE, index |-> 0]

\* Faulty variant: the new validator is not entered into the pubkey map.
AppendValidator_unmapped(s, v) == [s EXCEPT !.validators = Append(@, v)]
AppendValidator(s, v) ==
  [s EXCEPT !.validators = Append(@, v),
            !.valMap = @ \cup {<<ToBytes48(v.pubkey), Len(s.validators) + 1>>}]

\* Faulty variant: the balance entry of a new validator is not appended.
AppendBalance_dropped(s, amount) == s
AppendBalance(s, amount) == [s EXCEPT !.balances = Append(@, amount)]

IncreaseBalance(s, index, amount) == [s EXCEPT !.balances[index] = @ + amount]

\* The hash of two nodes.
Hash2(a, b) == <<"h", a, b>>

(***************************************************************************)
(* The deposit tree. The deposit contract keeps the data roots of the      *)
(* deposits made so far as the leaves of a tree of fixed depth; the        *)
(* deposit root of eth1 data with deposit count n is the root of the tree  *)
(* holding the first n of them, mixed with n. Positions count from 0.      *)
(***************************************************************************)
DepositContractTreeDepth == 3
Pow2(n) == IF n = 0 THEN 1 ELSE IF n = 1 THEN 2 ELSE IF n = 2 THEN 4 ELSE 8

\* The deposit made at position i of the contract.
ContractDeposit(i) ==
  [pubkey |-> IF i % 2 = 0 THEN FirstKey ELSE SecondKey,
   amount |-> EffectiveBalanceIncrement + (i % 2) + 1,
   sigValid |-> i % 3 # 2]
\* deposit.Data.HashTreeRoot().
DepositDataRoot(d) == <<"deposit_data", d.pubkey, d.amount, d.sigValid>>
LengthMixin(count) == <<"length", count>>

RECURSIVE DepositTreeNode(_, _, _)
DepositTreeNode(level, idx, count) ==
  IF level = 0
    THEN IF idx < count THEN DepositDataRoot(ContractDeposit(idx)) ELSE <<"zero">>
    ELSE Hash2(DepositTreeNode(level - 1, 2 * idx, count),
               DepositTreeNode(level - 1, 2 * idx + 1, count))
\* eth1_data.deposit_root of a state whose eth1 data has this deposit count.
DepositRootOf(count) ==
  Hash2(DepositTreeNode(DepositContractTreeDepth, 0, count), LengthMixin(count))
\* The sibling of the node above position pos at a level.
SiblingIndex(pos, level) ==
  IF (pos \div Pow2(level)) % 2 = 0 THEN (pos \div Pow2(level)) + 1
                                     ELSE (pos \div Pow2(level)) - 1
\* The branch of position pos in the tree of count deposits: the siblings from
\* the leaves up, then the length.
DepositProof(pos, count) ==
  [i \in 1..(DepositContractTreeDepth + 1) |->
     IF i <= DepositContractTreeDepth
       THEN DepositTreeNode(i - 1, SiblingIndex(pos, i - 1), count)
       ELSE LengthMixin(count)]

RECURSIVE BranchNode(_, _, _, _, _)
BranchNode(node, index, proof, i, last_i) ==
  IF i > last_i THEN node
  ELSE IF (index \div Pow2(i)) % 2 = 1
    THEN BranchNode(Hash2(proof[i + 1], node), index, proof, i + 1, last_i)
    ELSE BranchNode(Hash2(node, proof[i + 1]), index, proof, i + 1, last_i)
\* Faulty variant: the branch ends at the root of the tree, without the length.
VerifyMerkleBranch_noMixin(root, leaf, index, proof, depth) ==
  /\ Len(proof) = depth
  /\ BranchNode(leaf, index, proof, 0, depth - 1) = root
\* trieutil.VerifyMerkleBranch: a branch for a tree of the given depth has one
\* node per level and the length on top.
VerifyMerkleBranch(root, leaf, index, proof, depth) ==
  /\ Len(proof) = depth + 1
  /\ BranchNode(leaf, index, proof, 0, depth) = root

\* A deposit carries its branch (leaf and proof) or, where only the outcome
\* of the verification matters, the position at which its branch verifies
\* (proofIndex).
BranchVerifies(s, d) ==
  IF "proof" \in DOMAIN d
    THEN VerifyMerkleBranch(DepositRootOf(s.eth1), DepositDataRoot(d), s.dindex,
                            d.proof, DepositContractTreeDepth)
    ELSE d.proofIndex = s.dindex

verifyDeposit(s, d) == (~d.isNil) /\ BranchVerifies(s, d)

verifyDepositDataSigningRoot(d) == d.sigValid

\* The result of an operation: ok and the state object as the operation left it.
Res(ok, s) == [ok |-> ok, state |-> s]

SetEth1DepositIndex(s, v) == [s EXCEPT !.dindex = v]

\* Faulty variant: a deposit skipped for its signature leaves the state as it was on entry.
SkippedDeposit_noIncrement(s, s1) == s
\* A deposit skipped for its signature: the state object, whose deposit index the
\* call has already incremented, is returned without error.
SkippedDeposit(s, s1) == s1

ProcessDeposit(s, d, verifySignature) ==
  IF ~verifyDeposit(s, d) THEN Res(FALSE, s)
  ELSE
    LET s1 == SetEth1DepositIndex(s, s.dindex + 1)
        found == ValidatorIndexByPubkey(s1, ToBytes48(d.pubkey))
        amount == d.amount
        eb0 == amount - (amount % EffectiveBalanceIncrement)
        effectiveBalance == IF MaxEffectiveBalance < eb0 THEN MaxEffectiveBalance ELSE eb0
    IN IF ~found.ok
         THEN IF verifySignature /\ ~verifyDepositDataSigningRoot(d)
                THEN Res(TRUE, SkippedDeposit(s, s1))
                ELSE Res(TRUE,
                         AppendBalance(
                           AppendValidator(s1,
                             [pubkey |-> d.pubkey, eb |-> effectiveBalance,
                              aee |-> FarFutureEpoch, ae |-> FarFutureEpoch,
                              exit |-> FarFutureEpoch, wd |-> FarFutureEpoch]),
                           amount))
         ELSE Res(TRUE, IncreaseBalance(s1, found.index, amount))

\* Faulty variant: the aggregate verification looks at the first signature only.
verifyDepositDataWithDomain_first(deps, cancelled) == Len(deps) = 0 \/ deps[1].sigValid
\* The aggregate verification of all deposit signatures of a block.
verifyDepositDataWithDomain(deps, cancelled) ==
  IF Len(deps) = 0 THEN TRUE
  ELSE IF cancelled THEN FALSE
  ELSE IF \E i \in 1..Len(deps) : deps[i].isNil THEN FALSE
  ELSE \A i \in 1..Len(deps) : deps[i].sigValid

RECURSIVE DepositLoop(_, _, _, _)
DepositLoop(s, deps, i, verifySignature) ==
  IF i > Len(deps) THEN Res(TRUE, s)
  ELSE IF deps[i].isNil THEN Res(FALSE, s)
  ELSE LET r == ProcessDeposit(s, deps[i], verifySignature)
       IN IF ~r.ok THEN r ELSE DepositLoop(r.state, deps, i + 1, verifySignature)

ProcessDeposits(s, deps, cancelled) ==
  LET verifySignature == ~verifyDepositDataWithDomain(deps, cancelled)
  IN DepositLoop(s, deps, 1, verifySignature)

RECURSIVE PreGenesisLoop(_, _, _)
PreGenesisLoop(s, deps, i) ==
  IF i > Len(deps) THEN Res(TRUE, s)
  ELSE
    LET found == ValidatorIndexByPubkey(s, ToBytes48(deps[i].pubkey))
    IN IF ~found.ok THEN PreGenesisLoop(s, deps, i + 1)
       ELSE
         LET balance == s.balances[found.index]
             eb == Min(balance - (balance % EffectiveBalanceIncrement), MaxEffectiveBalance)
             v0 == [s.validators[found.index] EXCEPT !.eb = eb]
             v1 == IF eb = MaxEffectiveBalance THEN [v0 EXCEPT !.aee = 0, !.ae = 0] ELSE v0
         IN PreGenesisLoop([s EXCEPT !.validators[found.index] = v1], deps, i + 1)

\* Faulty variant: the validators are left as ProcessDeposits created them.
ProcessPreGenesisDeposits_noUpdate(s, deps, cancelled) == ProcessDeposits(s, deps, cancelled)
ProcessPreGenesisDeposits(s, deps, cancelled) ==
  LET r == ProcessDeposits(s, deps, cancelled)
  IN IF ~r.ok THEN r ELSE PreGenesisLoop(r.state, deps, 1)

(***************************************************************************)
(* Blocks. A body holds the eth1 vote (a deposit count), the deposits, the *)
(* lengths of the other operation lists, and `bad`: the processors, among  *)
(* those whose code lies outside the modelled files, that reject the block *)
(* (an invalid signature, slashing, attestation or exit).                  *)
(***************************************************************************)
BodyRoot(body) == <<"body", body.eth1vote, body.deposits, body.lens, body.bad>>

\* The header checks without the proposer signature.
ProcessBlockHeaderNoVerify(s, blk) ==
  IF blk.slot = s.slot /\ blk.slot > s.lbh.slot /\ blk.parent = HeaderRoot(s.lbh)
    THEN Res(TRUE, [s EXCEPT !.lbh = [slot |-> blk.slot, parent |-> blk.parent,
                                      sroot |-> ZeroHash, body |-> BodyRoot(blk.body)]])
    ELSE Res(FALSE, s)

\* "header" in bad: the proposer signature is invalid.
ProcessBlockHeader(s, blk) ==
  IF "header" \in blk.body.bad THEN Res(FALSE, s) ELSE ProcessBlockHeaderNoVerify(s, blk)

\* "randao" in bad: the signature of the randao reveal is invalid.
ProcessRandao(s, blk) == Res("randao" \notin blk.body.bad, s)
ProcessRandaoNoVerify(s, blk) == Res(TRUE, s)

CountVotes(votes, v) == Cardinality({i \in 1..Len(votes) : votes[i] = v})

ProcessEth1DataInBlock(s, blk) ==
  LET votes == Append(s.eth1votes, blk.body.eth1vote)
      s1 == [s EXCEPT !.eth1votes = votes]
  IN IF CountVotes(votes, blk.body.eth1vote) * 2 > SlotsPerEth1VotingPeriod
       THEN Res(TRUE, [s1 EXCEPT !.eth1 = blk.body.eth1vote])
       ELSE Res(TRUE, s1)

\* Faulty variant: deposits run before attestations.
processingPipeline_swapped ==
  <<"ProcessBlockHeader", "ProcessRandao", "ProcessEth1DataInBlock",
    "VerifyOperationLengths", "ProcessProposerSlashings", "ProcessAttesterSlashings",
    "ProcessDeposits", "ProcessAttestations", "ProcessVoluntaryExits">>

\* Faulty variant: the number of deposits is only bounded by MaxDeposits, like the other
\* operations, instead of being compared with the outstanding deposits.
VerifyOperationLengths_bound(s, blk) ==
  LET body == blk.body
  IN IF body.lens.ps > MaxProposerSlashings THEN Res(FALSE, s)
     ELSE IF body.lens.as > MaxAttesterSlashings THEN Res(FALSE, s)
     ELSE IF body.lens.att > MaxAttestations THEN Res(FALSE, s)
     ELSE IF body.lens.ex > MaxVoluntaryExits THEN Res(FALSE, s)
     ELSE IF s.dindex > s.eth1 THEN Res(FALSE, s)
     ELSE IF Len(body.deposits) > MaxDeposits THEN Res(FALSE, s) ELSE Res(TRUE, s)

\* Unsigned subtraction wraps around. (The word is 30 bits wide here, which
\* is far above every count of the model.)
WordModulus == 1073741824
SubUint64(a, b) == (a - b + WordModulus) % WordModulus

\* Faulty variant: the deposit index is not compared with the deposit count
\* before the subtraction.
VerifyOperationLengths_noIndexCheck(s, blk) ==
  LET body == blk.body
  IN IF body.lens.ps > MaxProposerSlashings THEN Res(FALSE, s)
     ELSE IF body.lens.as > MaxAttesterSlashings THEN Res(FALSE, s)
     ELSE IF body.lens.att > MaxAttestations THEN Res(FALSE, s)
     ELSE IF body.lens.ex > MaxVoluntaryExits THEN Res(FALSE, s)
     ELSE IF Len(body.deposits) # Min(MaxDeposits, SubUint64(s.eth1, s.dindex))
       THEN Res(FALSE, s) ELSE Res(TRUE, s)

VerifyOperationLengths(s, blk) ==
  LET body == blk.body
  IN IF body.lens.ps > MaxProposerSlashings THEN Res(FALSE, s)
     ELSE IF body.lens.as > MaxAttesterSlashings THEN Res(FALSE, s)
     ELSE IF body.lens.att > MaxAttestations THEN Res(FALSE, s)
     ELSE IF body.lens.ex > MaxVoluntaryExits THEN Res(FALSE, s)
     ELSE IF s.dindex > s.eth1 THEN Res(FALSE, s)
     ELSE LET maxDeposits == Min(MaxDeposits, SubUint64(s.eth1, s.dindex))
          IN IF Len(body.deposits) # maxDeposits THEN Res(FALSE, s) ELSE Res(TRUE, s)

\* A tag ending in _sigs in bad: an operation of that kind carries an invalid
\* signature. The tag without the ending: one is invalid otherwise.
ProcessProposerSlashings(s, blk) ==
  Res({"proposer_slashings", "proposer_slashing_sigs"} \cap blk.body.bad = {}, s)
ProcessAttesterSlashings(s, blk) ==
  Res({"attester_slashings", "attester_slashing_sigs"} \cap blk.body.bad = {}, s)
ProcessAttestations(s, blk) ==
  Res({"attestations", "attestation_sigs"} \cap blk.body.bad = {}, s)
\* exit.go, lines 47-75: every exit goes through VerifyExitAndSignature.
ProcessVoluntaryExits(s, blk) ==
  Res({"voluntary_exits", "voluntary_exit_sigs"} \cap blk.body.bad = {}, s)

processingPipeline ==
  <<"ProcessBlockHeader", "ProcessRandao", "ProcessEth1DataInBlock",
    "VerifyOperationLengths", "ProcessProposerSlashings", "ProcessAttesterSlashings",
    "ProcessAttestations", "ProcessDeposits", "ProcessVoluntaryExits">>

\* The processors by name. A list of processors is applied in order, each to the
\* state the previous one returned, up to the first that fails.
RECURSIVE ApplyProcessor(_, _, _, _), RunProcessors(_, _, _, _, _)

\* "attestations" in bad: an attestation is invalid otherwise than by its signature.
ProcessAttestationsNoVerifySignature(s, blk) == Res("attestations" \notin blk.body.bad, s)

\* lines 523-556.
ProcessOperationsNoVerifyAttsSigs(s, blk, cancelled) ==
  RunProcessors(<<"VerifyOperationLengths", "ProcessProposerSlashings",
                  "ProcessAttesterSlashings", "ProcessAttestationsNoVerifySignature",
                  "ProcessDeposits", "ProcessVoluntaryExits">>, 1, s, blk, cancelled)

ApplyProcessor(name, s, blk, cancelled) ==
  CASE name = "ProcessBlockHeader" -> ProcessBlockHeader(s, blk)
    [] name = "ProcessBlockHeaderNoVerify" -> ProcessBlockHeaderNoVerify(s, blk)
    [] name = "ProcessRandao" -> ProcessRandao(s, blk)
    [] name = "ProcessRandaoNoVerify" -> ProcessRandaoNoVerify(s, blk)
    [] name = "ProcessEth1DataInBlock" -> ProcessEth1DataInBlock(s, blk)
    [] name = "VerifyOperationLengths" -> VerifyOperationLengths(s, blk)
    [] name = "ProcessProposerSlashings" -> ProcessProposerSlashings(s, blk)
    [] name = "ProcessAttesterSlashings" -> ProcessAttesterSlashings(s, blk)
    [] name = "ProcessAttestations" -> ProcessAttestations(s, blk)
    [] name = "ProcessAttestationsNoVerifySignature" -> ProcessAttestationsNoVerifySignature(s, blk)
    [] name = "ProcessDeposits" -> ProcessDeposits(s, blk.body.deposits, cancelled)
    [] name = "ProcessVoluntaryExits" -> ProcessVoluntaryExits(s, blk)
    [] name = "ProcessOperationsNoVerifyAttsSigs" -> ProcessOperationsNoVerifyAttsSigs(s, blk, cancelled)

\* The state a failed processor leaves is the object as it was mutated so far.
StepResult(r, list, i, blk, cancelled) ==
  IF ~r.ok THEN r ELSE RunProcessors(list, i + 1, r.state, blk, cancelled)

RunProcessors(list, i, s, blk, cancelled) ==
  IF i > Len(list) THEN Res(TRUE, s)
  ELSE StepResult(ApplyProcessor(list[i], s, blk, cancelled), list, i, blk, cancelled)

\* lines 424-429, observed: the processors of a list as they are applied, each
\* with the state it was given and what it returned.
RECURSIVE ProcessorTrace(_, _, _, _, _)
TraceEntry(name, s, r) == [name |-> name, pre |-> s, ok |-> r.ok, post |-> r.state]
TraceRest(r, list, i, blk, cancelled) ==
  IF ~r.ok THEN <<>> ELSE ProcessorTrace(list, i + 1, r.state, blk, cancelled)
ProcessorTrace(list, i, s, blk, cancelled) ==
  IF i > Len(list) THEN <<>>
  ELSE <<TraceEntry(list[i], s, ApplyProcessor(list[i], s, blk, cancelled))>>
       \o TraceRest(ApplyProcessor(list[i], s, blk, cancelled), list, i, blk, cancelled)

\* lines 415-432.
ProcessBlock(s, blk, cancelled) == RunProcessors(processingPipeline, 1, s, blk, cancelled)

\* Faulty variant: the state root is computed with every signature verified.
ProcessBlockForStateRoot_verifying(s, blk, cancelled) == ProcessBlock(s, blk, cancelled)
\* lines 670-703.
ProcessBlockForStateRoot(s, blk, cancelled) ==
  RunProcessors(<<"ProcessBlockHeaderNoVerify", "ProcessRandaoNoVerify",
                  "ProcessEth1DataInBlock", "ProcessOperationsNoVerifyAttsSigs">>,
                1, s, blk, cancelled)

\* lines 446-496: the state effect of ProcessBlockNoVerifyAnySig (the signature
\* set it collects is not modelled).
ProcessBlockNoVerifyAnySig(s, blk, cancelled) ==
  RunProcessors(<<"ProcessBlockHeaderNoVerify", "ProcessRandaoNoVerify",
                  "ProcessEth1DataInBlock", "ProcessOperationsNoVerifyAttsSigs">>,
                1, s, blk, cancelled)

\* The signature sets: one entry per signature, with what it signs and whether
\* it is valid.
BlockSignatureSet(s, blk) == <<[kind |-> "block", valid |-> "header" \notin blk.body.bad]>>
RandaoSignatureSet(s, blk) == <<[kind |-> "randao", valid |-> "randao" \notin blk.body.bad]>>
AttestationSignatureSet(s, blk) ==
  [i \in 1..blk.body.lens.att |->
     [kind |-> "attestation", valid |-> "attestation_sigs" \notin blk.body.bad]]
\* bls.SignatureSet.Join appends the other set.
Join(set, other) == set \o other

\* Faulty variant: the randao set is joined first.
SignatureSetNoVerifyAnySig_randaoFirst(s, blk, cancelled) ==
  IF ~ProcessBlockNoVerifyAnySig(s, blk, cancelled).ok THEN <<>>
  ELSE Join(Join(Join(<<>>, RandaoSignatureSet(s, blk)), BlockSignatureSet(s, blk)),
            AttestationSignatureSet(s, blk))
\* lines 459-493: the signature set ProcessBlockNoVerifyAnySig returns, nil
\* with an error.
SignatureSetNoVerifyAnySig(s, blk, cancelled) ==
  IF ~ProcessBlockNoVerifyAnySig(s, blk, cancelled).ok THEN <<>>
  ELSE Join(Join(Join(<<>>, BlockSignatureSet(s, blk)), RandaoSignatureSet(s, blk)),
            AttestationSignatureSet(s, blk))

(***************************************************************************)
(* Slot processing.                                                        *)
(***************************************************************************)
RootIndex(slot) == (slot % SlotsPerHistoricalRoot) + 1

\* A state root that was never set (a nil slice).
NilRoot == <<"nil">>
\* Faulty variant: the state root of the header is set whatever it held.
ProcessSlot_overwriting(s) ==
  LET prevStateRoot == HashTreeRoot(s)
      s1 == [s EXCEPT !.sroots[RootIndex(s.slot)] = prevStateRoot]
      s2 == [s1 EXCEPT !.lbh.sroot = prevStateRoot]
      prevBlockRoot == HeaderRoot(s2.lbh)
  IN [s2 EXCEPT !.broots[RootIndex(s2.slot)] = prevBlockRoot]
\* lines 232-270
ProcessSlot(s) ==
  LET prevStateRoot == HashTreeRoot(s)
      s1 == [s EXCEPT !.sroots[RootIndex(s.slot)] = prevStateRoot]
      s2 == IF s1.lbh.sroot = NilRoot \/ s1.lbh.sroot = ZeroHash
              THEN [s1 EXCEPT !.lbh.sroot = prevStateRoot] ELSE s1
      prevBlockRoot == HeaderRoot(s2.lbh)
  IN [s2 EXCEPT !.broots[RootIndex(s2.slot)] = prevBlockRoot]

\* Faulty variant: the epoch is processed at the first slot of an epoch instead of the last.
CanProcessEpoch_first(s) == s.slot % SlotsPerEpoch = 0
CanProcessEpoch(s) == (s.slot + 1) % SlotsPerEpoch = 0

\* The epoch transition, reduced to the fields of the model: the eth1 votes are
\* reset and the epoch is counted.
ProcessEpochPrecompute(s) == [s EXCEPT !.epochs = @ + 1, !.eth1votes = <<>>]

\* One iteration of the loop of ProcessSlots.
SlotIteration(s) ==
  LET s1 == ProcessSlot(s)
      s2 == IF CanProcessEpoch(s1) THEN ProcessEpochPrecompute(s1) ELSE s1
  IN [s2 EXCEPT !.slot = @ + 1]

\* The loop of ProcessSlots on its own: the state advanced slot by slot.
RECURSIVE AdvanceSlots(_, _)
AdvanceSlots(s, slot) == IF s.slot < slot THEN AdvanceSlots(SlotIteration(s), slot) ELSE s

\* The record of a call: the operation, whether it returned without error, the
\* state before it and the number of deposits it was given.
Call(op, ok, pre, deps) == [op |-> op, ok |-> ok, pre |-> pre, n |-> Len(deps)]

(***************************************************************************)
(* ProcessSlots and the skip-slot cache.                                   *)
(* Tasks call ProcessSlots concurrently. A task's record holds the         *)
(* position in the function (pc) and its local variables: `state` is the    *)
(* local variable state, `obj` the state object the caller passed in, and   *)
(* `aliased` tells whether `state` still refers to that object (the loop    *)
(* mutates the object `state` refers to in place).                         *)
(***************************************************************************)
Procs == {1, 2}

\* Faulty variant: every state has the same key.
cacheKey_const(s) == <<"key", ZeroHash>>
\* The skip-slot cache key of a state (cacheKey).
cacheKey(s) == <<"key", HashTreeRoot(s)>>

\* SkipSlotCache.Get once the key is not in progress: the state stored under
\* the key (a copy), if any.
CacheHas(c, key) == \E e \in c : e.key = key
CacheGet(c, key) == (CHOOSE e \in c : e.key = key).state
\* SkipSlotCache.Put: stores a copy of the state under the key.
CachePut(c, key, s) == {e \in c : e.key # key} \cup {[key |-> key, state |-> s]}

IdleProc ==
  [pc |-> "idle", input |-> Genesis, obj |-> Genesis, state |-> Genesis, aliased |-> TRUE,
   slot |-> 0, key |-> ZeroHash, highestSlot |-> 0, marked |-> FALSE, adopted |-> FALSE,
   cancelled |-> FALSE, ok |-> TRUE]

StfIdle ==
  /\ procs = [p \in Procs |-> IdleProc]
  /\ cache = {}
  /\ inProgress = {}
  /\ ncalls = 0

\* The states the tasks call ProcessSlots on: they all start from the same state,
\* hence contend for the same key.
StartStates == {Genesis}

\* Faulty variant: a cached state replaces the local state wherever it lies.
AdoptCached_any(cachedState, slot) == TRUE
\* lines 342 and 351: whether a state read from the cache replaces the local state.
AdoptCached(cachedState, slot) == cachedState.slot < slot

\* Faulty variant: a state already at the target slot is let through.
SlotCheckFails_strict(s, slot) == s.slot > slot
\* line 324: the state must lie before the target slot.
SlotCheckFails(s, slot) == s.slot >= slot

\* Faulty variant: the loop stops one slot early.
LoopContinues_early(s, slot) == s.slot + 1 < slot
\* line 365: the loop condition.
LoopContinues(s, slot) == s.slot < slot

\* lines 337-345 and 347-354: the state under the key replaces the local state
\* when it exists and lies before the target.
AfterGet(l, c) ==
  IF CacheHas(c, l.key) /\ AdoptCached(CacheGet(c, l.key), l.slot)
    THEN [l EXCEPT !.highestSlot = CacheGet(c, l.key).slot,
                   !.state = CacheGet(c, l.key),
                   !.aliased = FALSE,
                   !.adopted = TRUE]
    ELSE l

\* Assignment through the local variable state: it mutates the caller's object
\* as long as state refers to it.
WithState(l, s) == IF l.aliased THEN [l EXCEPT !.state = s, !.obj = s] ELSE [l EXCEPT !.state = s]

\* lines 318-334: entry, the slot check and the key.
CallProcessSlots(p, s, slot) ==
  /\ procs[p].pc = "idle"
  /\ ncalls < MaxCalls
  /\ ncalls' = ncalls + 1
  /\ procs' = [procs EXCEPT ![p] =
       IF SlotCheckFails(s, slot)
         THEN [IdleProc EXCEPT !.pc = "done", !.input = s, !.obj = s, !.state = s,
                               !.slot = slot, !.ok = FALSE]
         ELSE [IdleProc EXCEPT !.pc = "get1", !.input = s, !.obj = s, !.state = s,
                               !.slot = slot, !.highestSlot = s.slot, !.key = cacheKey(s)]]
  /\ UNCHANGED <<cache, inProgress, opsVars>>

\* lines 337-345: SkipSlotCache.Get waits while the key is in progress; it fails
\* when the context is cancelled.
Get1(p) ==
  /\ procs[p].pc = "get1"
  /\ \/ /\ procs[p].cancelled
        /\ procs' = [procs EXCEPT ![p].pc = "done", ![p].ok = FALSE]
     \/ /\ ~procs[p].cancelled
        /\ procs[p].key \notin inProgress
        /\ procs' = [procs EXCEPT ![p] = [AfterGet(procs[p], cache) EXCEPT !.pc = "mark"]]
  /\ UNCHANGED <<cache, inProgress, ncalls, opsVars>>

\* line 346: SkipSlotCache.MarkInProgress.
MarkInProgress(p) ==
  /\ procs[p].pc = "mark"
  /\ IF procs[p].key \in inProgress
       THEN /\ procs' = [procs EXCEPT ![p].pc = "get2"]
            /\ UNCHANGED inProgress
       ELSE /\ inProgress' = inProgress \cup {procs[p].key}
            /\ procs' = [procs EXCEPT ![p].pc = "loop", ![p].marked = TRUE]
  /\ UNCHANGED <<cache, ncalls, opsVars>>

\* lines 347-354: the key was already in progress: Get again, which waits.
Get2(p) ==
  /\ procs[p].pc = "get2"
  /\ \/ /\ procs[p].cancelled
        /\ procs' = [procs EXCEPT ![p].pc = "done", ![p].ok = FALSE]
     \/ /\ ~procs[p].cancelled
        /\ procs[p].key \notin inProgress
        /\ procs' = [procs EXCEPT ![p] = [AfterGet(procs[p], cache) EXCEPT !.pc = "loop"]]
  /\ UNCHANGED <<cache, inProgress, ncalls, opsVars>>

\* Faulty variant: the state is stored wherever it lies.
PutIfAdvanced_always(l, c) == CachePut(c, l.key, l.state)
\* lines 369-373 and 394-399: the state is stored when it is past the high-water mark.
PutIfAdvanced(l, c) ==
  IF l.highestSlot < l.state.slot THEN CachePut(c, l.key, l.state) ELSE c

\* lines 365-392: one iteration of the loop, or its end by cancellation.
LoopStep(p) ==
  /\ procs[p].pc = "loop"
  /\ LoopContinues(procs[p].state, procs[p].slot)
  /\ IF procs[p].cancelled
       THEN /\ cache' = PutIfAdvanced(procs[p], cache)
            /\ procs' = [procs EXCEPT ![p].pc = "unmark", ![p].ok = FALSE]
       ELSE /\ procs' = [procs EXCEPT ![p] = WithState(procs[p], SlotIteration(procs[p].state))]
            /\ UNCHANGED cache
  /\ UNCHANGED <<inProgress, ncalls, opsVars>>

\* lines 394-401: the loop is over.
LoopExit(p) ==
  /\ procs[p].pc = "loop"
  /\ ~LoopContinues(procs[p].state, procs[p].slot)
  /\ cache' = PutIfAdvanced(procs[p], cache)
  /\ procs' = [procs EXCEPT ![p].pc = "unmark", ![p].ok = TRUE]
  /\ UNCHANGED <<inProgress, ncalls, opsVars>>

\* Faulty variant: the call returns without releasing the key.
MarkNotInProgress_skip(p) ==
  /\ procs[p].pc = "unmark"
  /\ procs' = [procs EXCEPT ![p].pc = "done"]
  /\ UNCHANGED <<cache, inProgress, ncalls, opsVars>>

\* lines 358-363: the deferred SkipSlotCache.MarkNotInProgress, then the return.
MarkNotInProgress(p) ==
  /\ procs[p].pc = "unmark"
  /\ inProgress' = inProgress \ {procs[p].key}
  /\ procs' = [procs EXCEPT ![p].pc = "done"]
  /\ UNCHANGED <<cache, ncalls, opsVars>>

\* The context of a running call is cancelled. (A cancellation while the call
\* waits in the second Get is one before MarkInProgress: the call does nothing
\* in between.)
Cancel(p) ==
  /\ procs[p].pc \in {"get1", "mark", "loop"}
  /\ ~procs[p].cancelled
  /\ procs' = [procs EXCEPT ![p].cancelled = TRUE]
  /\ UNCHANGED <<cache, inProgress, ncalls, opsVars>>

\* The task takes the result and is free for another call.
Return(p) ==
  /\ procs[p].pc = "done"
  /\ ncalls < MaxCalls
  /\ procs' = [procs EXCEPT ![p] = IdleProc]
  /\ UNCHANGED <<cache, inProgress, ncalls, opsVars>>

Init ==
  /\ StfIdle
  /\ bstate = Genesis
  /\ last = Call("none", TRUE, Genesis, <<>>)
  /\ nops = 0

Next ==
  \E p \in Procs :
    \/ \E s \in StartStates, slot \in 0..MaxSlot : CallProcessSlots(p, s, slot)
    \/ Get1(p)
    \/ MarkInProgress(p)
    \/ Get2(p)
    \/ LoopStep(p)
    \/ LoopExit(p)
    \/ MarkNotInProgress(p)
    \/ Cancel(p)
    \/ Return(p)

Spec == Init /\ [][Next]_vars

(***************************************************************************)
(* Inputs of the deposit operations.                                       *)
(***************************************************************************)
\* What a caller chooses for one deposit: its data, whether its proof is the
\* one for its position in the deposit tree, and whether it is nil.
Choice(pk, amount, sigValid, proofOK, isNil) ==
  [pubkey |-> pk, amount |-> amount, sigValid |-> sigValid, proofOK |-> proofOK, isNil |-> isNil]

DepositChoices ==
  {Choice(FirstKey, EffectiveBalanceIncrement + 1, TRUE, TRUE, FALSE),
   Choice(FirstKey, MaxEffectiveBalance, FALSE, TRUE, FALSE),
   Choice(SecondKey, EffectiveBalanceIncrement + 1, TRUE, TRUE, FALSE),
   Choice(SecondKey, EffectiveBalanceIncrement + 1, FALSE, TRUE, FALSE),
   Choice(SecondKey, MaxEffectiveBalance, TRUE, TRUE, FALSE),
   Choice(SecondKey, MaxEffectiveBalance + EffectiveBalanceIncrement, TRUE, TRUE, FALSE),
   Choice(SecondKey, MaxEffectiveBalance, TRUE, FALSE, FALSE),
   Choice(<<>>, 0, FALSE, FALSE, TRUE)}

BlockDepositChoices ==
  {Choice(FirstKey, EffectiveBalanceIncrement + 1, TRUE, TRUE, FALSE),
   Choice(SecondKey, EffectiveBalanceIncrement + 1, FALSE, TRUE, FALSE),
   Choice(SecondKey, MaxEffectiveBalance, TRUE, TRUE, FALSE),
   Choice(SecondKey, MaxEffectiveBalance, TRUE, FALSE, FALSE)}

ListsOver(choices) == UNION {[1..n -> choices] : n \in 0..MaxBlockDeposits}

\* The deposits of a call on a state whose deposit index is dindex.
MkDeposits(dindex, choices) ==
  [i \in 1..Len(choices) |->
     [pubkey |-> choices[i].pubkey, amount |-> choices[i].amount,
      sigValid |-> choices[i].sigValid,
      proofIndex |-> IF choices[i].proofOK THEN dindex + i - 1 ELSE 0,
      isNil |-> choices[i].isNil]]

(***************************************************************************)
(* The operations specification: the deposit operations called on a state  *)
(* object, which they mutate in place.                                     *)
(***************************************************************************)
\* What a deposit call leaves behind for inspection: the call, the pubkeys of
\* its deposits, those among them all of whose deposits carry an invalid
\* signature while signatures are verified, and the outcome of processing the
\* same deposits one by one with individual signature verification.
DepositKeys(deps) == {ToBytes48(deps[i].pubkey) : i \in {j \in 1..Len(deps) : ~deps[j].isNil}}
UnsignedKeys(deps) ==
  {k \in DepositKeys(deps) :
     \A i \in 1..Len(deps) : (~deps[i].isNil /\ ToBytes48(deps[i].pubkey) = k) => ~deps[i].sigValid}
DepositCall(op, ok, pre, deps, verified) ==
  [op |-> op, ok |-> ok, pre |-> pre, n |-> Len(deps),
   keys |-> DepositKeys(deps),
   unsigned |-> IF verified THEN UnsignedKeys(deps) ELSE {},
   individually |-> IF op = "ProcessDeposits" THEN DepositLoop(pre, deps, 1, TRUE)
                    ELSE Res(ok, pre)]

\* A caller goes on with the state only after a call that returned no error.
OpsContinue == nops < MaxOps /\ last.ok
InitOps ==
  /\ bstate \in {Genesis, GenesisTwo}
  /\ last = DepositCall("none", TRUE, bstate, <<>>, TRUE)
  /\ nops = 0
  /\ StfIdle

OpProcessDeposit ==
  \E c \in DepositChoices, verifySignature \in BOOLEAN :
    LET deps == MkDeposits(bstate.dindex, <<c>>)
        r == ProcessDeposit(bstate, deps[1], verifySignature)
    IN /\ ~c.isNil
       /\ OpsContinue
       /\ bstate' = r.state
       /\ last' = DepositCall("ProcessDeposit", r.ok, bstate, deps, verifySignature)
       /\ nops' = nops + 1
       /\ UNCHANGED stfVars

OpProcessDeposits ==
  \E cs \in ListsOver(DepositChoices), cancelled \in BOOLEAN :
    LET deps == MkDeposits(bstate.dindex, cs)
        r == ProcessDeposits(bstate, deps, cancelled)
    IN /\ OpsContinue
       /\ bstate' = r.state
       /\ last' = DepositCall("ProcessDeposits", r.ok, bstate, deps, TRUE)
       /\ nops' = nops + 1
       /\ UNCHANGED stfVars

OpProcessPreGenesisDeposits ==
  \E cs \in ListsOver(DepositChoices) :
    LET deps == MkDeposits(bstate.dindex, cs)
        r == ProcessPreGenesisDeposits(bstate, deps, FALSE)
    IN /\ OpsContinue
       /\ bstate' = r.state
       /\ last' = DepositCall("ProcessPreGenesisDeposits", r.ok, bstate, deps, TRUE)
       /\ nops' = nops + 1
       /\ UNCHANGED stfVars

NextOps ==
  \/ OpProcessDeposit
  \/ OpProcessDeposits
  \/ OpProcessPreGenesisDeposits

SpecOps == InitOps /\ [][NextOps]_vars

(***************************************************************************)
(* The block specification: one state object advanced through the slots    *)
(* (skip-slot cache disabled) and the blocks applied to it by ProcessBlock. *)
(* No call is made on the state a failed block left behind.                *)
(***************************************************************************)
NoLens == [ps |-> 0, as |-> 0, att |-> 0, ex |-> 0]

\* What is wrong with a block, besides its deposits.
Defects ==
  {"none", "parent", "long_ps", "long_as", "long_att", "long_ex",
   "header", "randao", "proposer_slashings", "attester_slashings", "attestations",
   "voluntary_exits"}

MkBody(vote, deps, defect) ==
  [eth1vote |-> vote,
   deposits |-> deps,
   lens |-> [ps |-> IF defect = "long_ps" THEN MaxProposerSlashings + 1 ELSE 0,
             as |-> IF defect = "long_as" THEN MaxAttesterSlashings + 1 ELSE 0,
             att |-> IF defect = "long_att" THEN MaxAttestations + 1 ELSE 0,
             ex |-> IF defect = "long_ex" THEN MaxVoluntaryExits + 1 ELSE 0],
   bad |-> IF defect \in {"header", "randao", "proposer_slashings", "attester_slashings",
                          "attestations", "voluntary_exits"}
             THEN {defect} ELSE {}]

\* A block proposed on state s (already advanced to the block's slot).
MkBlock(s, vote, choices, defect, stateRoot) ==
  [isNil |-> FALSE,
   slot |-> s.slot,
   parent |-> IF defect = "parent" THEN BogusRoot ELSE HeaderRoot(s.lbh),
   stateRoot |-> stateRoot,
   body |-> MkBody(vote, MkDeposits(s.dindex, choices), defect)]

InitBlock ==
  /\ bstate = Genesis
  /\ last = Call("none", TRUE, bstate, <<>>)
  /\ nops = 0
  /\ StfIdle

BlockFailed == last.op = "ProcessBlock" /\ ~last.ok

OpProcessSlots ==
  \E slot \in 1..MaxSlot :
    /\ ~BlockFailed
    /\ bstate.slot < slot
    /\ bstate' = AdvanceSlots(bstate, slot)
    /\ last' = Call("ProcessSlots", TRUE, bstate, <<>>)
    /\ UNCHANGED <<nops, stfVars>>

OpProcessBlock ==
  \E vote \in 0..MaxCount, cs \in ListsOver(BlockDepositChoices) :
    \E defect \in (IF Len(cs) <= 1 THEN Defects ELSE {"none"}) :
    LET blk == MkBlock(bstate, vote, cs, defect, ZeroHash)
        r == ProcessBlock(bstate, blk, FALSE)
    IN /\ ~BlockFailed
       /\ nops < MaxOps
       /\ bstate' = r.state
       /\ last' = Call("ProcessBlock", r.ok, bstate, blk.body.deposits)
       /\ nops' = nops + 1
       /\ UNCHANGED stfVars

NextBlock ==
  \/ OpProcessSlots
  \/ OpProcessBlock

SpecBlock == InitBlock /\ [][NextBlock]_vars

(***************************************************************************)
(* The transition specification: ExecuteStateTransition,                   *)
(* ExecuteStateTransitionNoVerifyAnySig and CalculateStateRoot called one   *)
(* after the other, with the skip-slot cache shared between the calls.     *)
(***************************************************************************)
\* Most calls of the transition functions.
MaxTransitions == 2

\* A context: `slots` is the number of loop iterations of ProcessSlots after
\* which it is cancelled (0: cancelled before the call, MaxSlot + 1: not while
\* the slots are processed), `block` tells whether it is cancelled by the time
\* the block is processed.
Ctx(slots, block) == [slots |-> slots, block |-> block]
Background == Ctx(MaxSlot + 1, FALSE)

\* lines 365-401, run by a single task.
RECURSIVE SlotLoop(_, _, _, _)
SlotLoop(l, c, done, cancelAt) ==
  IF LoopContinues(l.state, l.slot)
    THEN IF done >= cancelAt
           THEN [ok |-> FALSE, l |-> l, cache |-> PutIfAdvanced(l, c)]
           ELSE SlotLoop(WithState(l, SlotIteration(l.state)), c, done + 1, cancelAt)
    ELSE [ok |-> TRUE, l |-> l, cache |-> PutIfAdvanced(l, c)]

\* ProcessSlots called by a single task, no other call running: Get does not
\* wait and MarkInProgress succeeds. l gives the state passed in (l.state), the
\* caller's object (l.obj) and whether the two are one object.
ProcessSlotsAlone(l, slot, c, cancelAt) ==
  IF SlotCheckFails(l.state, slot) THEN [ok |-> FALSE, l |-> l, cache |-> c]
  ELSE IF cancelAt = 0 THEN [ok |-> FALSE, l |-> l, cache |-> c]
  ELSE SlotLoop(AfterGet([l EXCEPT !.input = l.state, !.slot = slot,
                                    !.highestSlot = l.state.slot, !.key = cacheKey(l.state)],
                          c), c, 0, cancelAt)

\* The state passed by the caller, as the local variable of the function called.
Local(s, aliased) == [IdleProc EXCEPT !.input = s, !.obj = s, !.state = s, !.aliased = aliased]

\* The root of the block whose post-state is s: the parent root of the next block.
BlockRootOf(s) ==
  HeaderRoot([s.lbh EXCEPT !.sroot = IF s.lbh.sroot = ZeroHash THEN HashTreeRoot(s) ELSE s.lbh.sroot])

\* NextSlotState: when the next-slot cache holds an entry for the root (hit), it
\* is the post-state of that block advanced by one slot.
NextSlotState(s, parentRoot, hit) ==
  IF hit /\ s.slot = s.lbh.slot /\ parentRoot = BlockRootOf(s)
    THEN <<AdvanceSlots(s, s.slot + 1)>>
    ELSE <<>>

\* lines 288-290: a state found in the next-slot cache replaces the parent state.
ReplaceByNextSlotState(l, nextSlotState) ==
  IF nextSlotState # <<>>
    THEN [l EXCEPT !.state = nextSlotState[1], !.aliased = FALSE]
    ELSE l

\* lines 294-300.
RemainingSlots(l, slot, c, cancelAt) ==
  IF slot > l.state.slot
    THEN ProcessSlotsAlone(l, slot, c, cancelAt)
    ELSE [ok |-> TRUE, l |-> l, cache |-> c]

\* lines 273-301.
ProcessSlotsUsingNextSlotCache(l, parentRoot, slot, c, cancelAt, hit) ==
  RemainingSlots(ReplaceByNextSlotState(l, NextSlotState(l.state, parentRoot, hit)),
                 slot, c, cancelAt)

\* The outcome of a transition function: whether it returned without error, the
\* state it returned (<<>> for nil), the caller's object after the call, whether
\* a state of the skip-slot cache was adopted, the skip-slot cache after the call
\* and the root it computed.
StfRes(ok, ret, l, c, root) ==
  [ok |-> ok, ret |-> ret, obj |-> l.obj, adopted |-> l.adopted, cache |-> c, root |-> root]

\* Faulty variant: the root of the block is not compared.
RootMatches_any(postStateRoot, blk) == TRUE
\* line 97.
RootMatches(postStateRoot, blk) == postStateRoot = blk.stateRoot

\* A call that failed before it touched anything.
Rejected(s, c) == StfRes(FALSE, <<>>, Local(s, TRUE), c, ZeroHash)

\* The block processed on the state the slot processing returned: the processor
\* mutates the object the local variable refers to.
AfterBlock(r1, r2) == [ok |-> r2.ok, l |-> WithState(r1.l, r2.state), cache |-> r1.cache]

\* lines 93-101: the root of the post-state against the root the block carries.
\* The post-state is returned with the error when the roots differ.
VerifiedResult(l, c, postStateRoot, blk) ==
  StfRes(RootMatches(postStateRoot, blk), <<l.state>>, l, c, postStateRoot)

VerifyRoot(r, blk) ==
  IF ~r.ok THEN StfRes(FALSE, <<>>, r.l, r.cache, ZeroHash)
  ELSE VerifiedResult(r.l, r.cache, HashTreeRoot(r.l.state), blk)

\* lines 84-101.
ExecuteBlock(r1, blk, ctx) ==
  IF ~r1.ok THEN StfRes(FALSE, <<>>, r1.l, r1.cache, ZeroHash)
  ELSE VerifyRoot(AfterBlock(r1, ProcessBlock(r1.l.state, blk, ctx.block)), blk)

\* lines 63-102.
ExecuteStateTransition(s, blk, c, ctx) ==
  IF ctx.slots = 0 \/ blk.isNil THEN Rejected(s, c)
  ELSE ExecuteBlock(ProcessSlotsAlone(Local(s, TRUE), blk.slot, c, ctx.slots), blk, ctx)

\* lines 132-153: the slots are processed through the next-slot cache when the
\* feature is enabled.
SlotsFor(l, blk, c, ctx, EnableNextSlotStateCache, hit) ==
  IF EnableNextSlotStateCache
    THEN ProcessSlotsUsingNextSlotCache(l, blk.parent, blk.slot, c, ctx.slots, hit)
    ELSE ProcessSlotsAlone(l, blk.slot, c, ctx.slots)

ReturnState(r) ==
  IF ~r.ok THEN StfRes(FALSE, <<>>, r.l, r.cache, ZeroHash)
  ELSE StfRes(TRUE, <<r.l.state>>, r.l, r.cache, ZeroHash)

ExecuteBlockNoVerifyAnySig(r1, blk, ctx) ==
  IF ~r1.ok THEN StfRes(FALSE, <<>>, r1.l, r1.cache, ZeroHash)
  ELSE ReturnState(AfterBlock(r1, ProcessBlockNoVerifyAnySig(r1.l.state, blk, ctx.block)))

\* lines 119-154.
ExecuteStateTransitionNoVerifyAnySig(s, blk, c, ctx, EnableNextSlotStateCache, hit) ==
  IF ctx.slots = 0 \/ blk.isNil THEN Rejected(s, c)
  ELSE ExecuteBlockNoVerifyAnySig(
         SlotsFor(Local(s, TRUE), blk, c, ctx, EnableNextSlotStateCache, hit), blk, ctx)

\* Faulty variant: the state is not copied.
AliasAfterCopy_shared(aliased) == aliased
\* line 189, state = state.Copy(): the local variable no longer refers to the
\* caller's object.
AliasAfterCopy(aliased) == FALSE

ReturnRoot(r) ==
  IF ~r.ok THEN StfRes(FALSE, <<>>, r.l, r.cache, ZeroHash)
  ELSE StfRes(TRUE, <<>>, r.l, r.cache, HashTreeRoot(r.l.state))

ExecuteBlockForStateRoot(r1, blk, ctx) ==
  IF ~r1.ok THEN StfRes(FALSE, <<>>, r1.l, r1.cache, ZeroHash)
  ELSE ReturnRoot(AfterBlock(r1, ProcessBlockForStateRoot(r1.l.state, blk, ctx.block)))

\* lines 172-214.
CalculateStateRoot(s, blk, c, ctx, EnableNextSlotStateCache, hit) ==
  IF ctx.slots = 0 \/ blk.isNil THEN Rejected(s, c)
  ELSE ExecuteBlockForStateRoot(
         SlotsFor(Local(s, AliasAfterCopy(TRUE)), blk, c, ctx, EnableNextSlotStateCache, hit),
         blk, ctx)

\* The blocks handed to the transition functions.
\* A block for the given slot on top of state s: its parent root and deposit
\* proofs are those of s, and its state root is either the root of the state
\* the block leads to or a wrong one.
WithStateRoot(a, b0, rootGood) ==
  [b0 EXCEPT !.stateRoot = IF rootGood
                             THEN HashTreeRoot(ProcessBlockForStateRoot(a, b0, FALSE).state)
                             ELSE BogusRoot]

BlockOn(a, slot, vote, choices, defect, rootGood) ==
  WithStateRoot(a, [MkBlock(a, vote, choices, defect, ZeroHash) EXCEPT !.slot = slot], rootGood)

MkBlockFor(s, slot, vote, choices, defect, rootGood) ==
  BlockOn(AdvanceSlots(s, slot), slot, vote, choices, defect, rootGood)

NilBlock == [MkBlock(Genesis, 0, <<>>, "none", ZeroHash) EXCEPT !.isNil = TRUE]

\* A block that succeeds on s: it votes for MaxCount deposits, which its one vote
\* carries, and brings the deposits that are then outstanding.
GoodBlock(s, slot) ==
  MkBlockFor(s, slot, MaxCount,
             <<Choice(FirstKey, EffectiveBalanceIncrement + 1, TRUE, TRUE, FALSE),
               Choice(SecondKey, MaxEffectiveBalance, TRUE, TRUE, FALSE)>>,
             "none", TRUE)

StfBlocks(s, slot) ==
  {GoodBlock(s, slot),
   \* no deposit, and a wrong state root
   MkBlockFor(s, slot, s.eth1, <<>>, "none", FALSE),
   \* the second deposit fails after the first has been applied
   MkBlockFor(s, slot, MaxCount,
              <<Choice(SecondKey, MaxEffectiveBalance, TRUE, TRUE, FALSE),
                Choice(SecondKey, MaxEffectiveBalance, TRUE, FALSE, FALSE)>>,
              "none", TRUE),
   \* a wrong parent root
   MkBlockFor(s, slot, s.eth1, <<>>, "parent", TRUE)}

\* What a caller passes besides the state: the block, the context, and for the
\* functions that read them the feature flag and whether the next-slot cache
\* holds an entry for the parent root.
In(blk, ctx, flag, hit) == [blk |-> blk, ctx |-> ctx, flag |-> flag, hit |-> hit]

StfInputs(s) ==
  {In(NilBlock, Background, FALSE, FALSE), In(GoodBlock(s, 1), Ctx(0, TRUE), FALSE, FALSE)}
  \cup {In(blk, Background, FALSE, FALSE) : blk \in UNION {StfBlocks(s, slot) : slot \in 1..MaxSlot}}
  \cup {In(GoodBlock(s, slot), Ctx(1, TRUE), FALSE, FALSE) : slot \in 1..MaxSlot}
  \cup {In(GoodBlock(s, slot), Background, TRUE, hit) : slot \in 1..MaxSlot, hit \in BOOLEAN}

\* The record of a call of a transition function.
StfCall(op, pre, blk, r, cold) ==
  [op |-> op, ok |-> r.ok, pre |-> pre, n |-> Len(blk.body.deposits), ret |-> r.ret,
   obj |-> r.obj, adopted |-> r.adopted, root |-> r.root, want |-> blk.stateRoot, slot |-> blk.slot,
   cold |-> cold]

NoCall == StfCall("none", Genesis, NilBlock, Rejected(Genesis, {}), <<>>)

InitSTF ==
  /\ bstate = Genesis
  /\ last = NoCall
  /\ nops = 0
  /\ StfIdle

\* The caller's object was left half-processed by a failed call: the caller
\* discards it.
Spoiled == last.op # "none" /\ ~last.ok /\ last.obj # last.pre

\* The caller goes on with the state returned, or with its object.
Continue(r) ==
  /\ bstate' = IF r.ok /\ r.ret # <<>> THEN r.ret[1] ELSE r.obj
  /\ cache' = r.cache
  /\ nops' = nops + 1
  /\ UNCHANGED <<procs, inProgress, ncalls>>

\* The caller advances its state itself.
OpProcessSlotsAlone ==
  \E slot \in 0..MaxSlot, ctx \in {Background, Ctx(1, TRUE)} :
    LET r == ReturnState(ProcessSlotsAlone(Local(bstate, TRUE), slot, cache, ctx.slots))
        cold == ReturnState(ProcessSlotsAlone(Local(bstate, TRUE), slot, {}, Background.slots))
    IN /\ ~Spoiled
       /\ nops < MaxTransitions
       /\ last' = StfCall("ProcessSlots", bstate, [NilBlock EXCEPT !.slot = slot], r, cold.ret)
       /\ Continue(r)

OpExecuteStateTransition ==
  \E in \in StfInputs(bstate) :
    LET blk == in.blk
        r == ExecuteStateTransition(bstate, blk, cache, in.ctx)
        cold == ExecuteStateTransition(bstate, blk, {}, Background)
    IN /\ ~in.flag
       /\ ~Spoiled
       /\ nops < MaxTransitions
       /\ last' = StfCall("ExecuteStateTransition", bstate, blk, r, cold.ret)
       /\ Continue(r)

OpExecuteStateTransitionNoVerifyAnySig ==
  \E in \in StfInputs(bstate) :
    LET blk == in.blk
        r == ExecuteStateTransitionNoVerifyAnySig(bstate, blk, cache, in.ctx, in.flag, in.hit)
        cold == ExecuteStateTransitionNoVerifyAnySig(bstate, blk, {}, Background, FALSE, FALSE)
    IN /\ ~Spoiled
       /\ nops < MaxTransitions
       /\ last' = StfCall("ExecuteStateTransitionNoVerifyAnySig", bstate, blk, r, cold.ret)
       /\ Continue(r)

OpCalculateStateRoot ==
  \E in \in StfInputs(bstate) :
    LET blk == in.blk
        r == CalculateStateRoot(bstate, blk, cache, in.ctx, in.flag, in.hit)
    IN /\ ~Spoiled
       /\ nops < MaxTransitions
       /\ last' = StfCall("CalculateStateRoot", bstate, blk, r, <<>>)
       /\ Continue(r)

NextSTF ==
  \/ OpProcessSlotsAlone
  \/ OpExecuteStateTransition
  \/ OpExecuteStateTransitionNoVerifyAnySig
  \/ OpCalculateStateRoot

SpecSTF == InitSTF /\ [][NextSTF]_vars

(***************************************************************************)
(* Claims about the deposit operations.                                    *)
(***************************************************************************)
\* C8: after ProcessDeposit, ProcessDeposits or ProcessPreGenesisDeposits has
\* returned, with or without error, the state has as many balances as validators.
C8_LengthCoupling == Len(bstate.validators) = Len(bstate.balances)

\* C8 witness: ProcessDeposits returned an error after it had appended a validator.
C8_Witness ==
  /\ last.op = "ProcessDeposits"
  /\ ~last.ok
  /\ Len(bstate.validators) > Len(last.pre.validators)

\* C9: a successful ProcessDeposits moves eth1_deposit_index forward by exactly the
\* number of deposits it was given.
C9_DepositIndexAdvance ==
  (last.op = "ProcessDeposits" /\ last.ok) => bstate.dindex = last.pre.dindex + last.n

\* C9 witness: two deposits on the genesis state, one topping up the first validator
\* and one skipped for its signature (no validator appended).
C9_Witness ==
  /\ last.op = "ProcessDeposits"
  /\ last.ok
  /\ last.n = 2
  /\ last.pre = Genesis
  /\ Len(bstate.validators) = 1
  /\ bstate.balances[1] = MaxEffectiveBalance + EffectiveBalanceIncrement + 1

\* C10: after a block that ProcessBlock accepted, eth1_deposit_index does not
\* exceed eth1_data.deposit_count.
C10_IndexWithinCount ==
  (last.op = "ProcessBlock" /\ last.ok) => bstate.dindex <= bstate.eth1

\* C10 witness: an accepted block whose vote raised the deposit count and whose
\* deposits brought the index up to it.
C10_Witness ==
  /\ last.op = "ProcessBlock"
  /\ last.ok
  /\ last.n = MaxBlockDeposits
  /\ bstate.eth1 > last.pre.eth1
  /\ bstate.dindex = bstate.eth1

(***************************************************************************)
(* Claims about the transition functions.                                  *)
(***************************************************************************)
\* C1: when ExecuteStateTransition returns without error, the root of the state
\* it returns is the state root the block carries; when the root it computed
\* differs, it returns an error, together with the post-state.
C1_RootAgreement ==
  last.op = "ExecuteStateTransition" =>
    /\ last.ok => (last.ret # <<>> /\ HashTreeRoot(last.ret[1]) = last.want)
    /\ (last.root # ZeroHash /\ last.root # last.want) =>
         (~last.ok /\ last.ret # <<>> /\ HashTreeRoot(last.ret[1]) = last.root)

\* C1 witness: ExecuteStateTransition accepted a block with two deposits, two
\* slots or more past the state.
C1_Witness ==
  /\ last.op = "ExecuteStateTransition"
  /\ last.ok
  /\ last.n = 2
  /\ last.slot >= last.pre.slot + 2
  /\ last.ret[1].slot = last.slot

RefSlotStep(s) ==
  LET s1 == ProcessSlot(s)
      s2 == IF (s1.slot + 1) % SlotsPerEpoch = 0 THEN ProcessEpochPrecompute(s1) ELSE s1
  IN [s2 EXCEPT !.slot = s2.slot + 1]

RECURSIVE RepeatSlotStep(_, _)
RepeatSlotStep(s, n) == IF n = 0 THEN s ELSE RepeatSlotStep(RefSlotStep(s), n - 1)

\* C4: the state a successful ProcessSlots(s, t) returns is s after t - s.slot
\* single-slot steps (process_slot; process_epoch if (slot + 1) mod SLOTS_PER_EPOCH
\* = 0; slot += 1).
C4_EqualsRepeatedSlotSteps ==
  (last.op = "ProcessSlots" /\ last.ok) =>
    last.ret[1] = RepeatSlotStep(last.pre, last.slot - last.pre.slot)

\* C4 witness: a successful ProcessSlots on the post-state of a block, over two
\* slots or more and across an epoch boundary.
C4_Witness ==
  /\ last.op = "ProcessSlots"
  /\ last.ok
  /\ last.pre.lbh.slot > 0
  /\ last.slot >= last.pre.slot + 2
  /\ last.ret[1].epochs > last.pre.epochs

\* What a transition returns with a skip-slot cache filled by earlier calls is
\* what it returns with an empty cache.
ColdRunAgrees ==
  (last.op \in {"ProcessSlots", "ExecuteStateTransition", "ExecuteStateTransitionNoVerifyAnySig"}
   /\ last.ok /\ last.slot > last.pre.slot)
  => last.ret = last.cold

\* C7: CalculateStateRoot leaves the caller's state as it was, whether it returns
\* a root or an error.
C7_CalculateStateRootKeepsState ==
  last.op = "CalculateStateRoot" =>
    /\ last.obj = last.pre
    /\ bstate = last.pre
    /\ HashTreeRoot(bstate) = HashTreeRoot(last.pre)

\* C7 witness: CalculateStateRoot returned the root of a block with two deposits,
\* two slots or more past the caller's state.
C7_Witness ==
  /\ last.op = "CalculateStateRoot"
  /\ last.ok
  /\ last.n = 2
  /\ last.root = last.want
  /\ last.slot >= last.pre.slot + 2

(***************************************************************************)
(* Claims about ProcessSlots and the skip-slot cache.                      *)
(***************************************************************************)
Returned(p) == procs[p].pc = "done" /\ procs[p].ok

ConcurrentRunsEqualRepeatedSlotSteps ==
  \A p \in Procs :
    Returned(p) =>
      procs[p].state = RepeatSlotStep(procs[p].input, procs[p].slot - procs[p].input.slot)

\* C5: a call that adopted a cached state returns what the loop returns when run
\* on the input state with no cache, and two successful calls with the same state
\* and target return equal states.
C5_CacheCoherence ==
  /\ \A p \in Procs :
       (Returned(p) /\ procs[p].adopted) =>
         procs[p].state = AdvanceSlots(procs[p].input, procs[p].slot)
  /\ \A p, q \in Procs :
       (Returned(p) /\ Returned(q) /\ procs[p].input = procs[q].input
        /\ procs[p].slot = procs[q].slot)
       => procs[p].state = procs[q].state

\* C5 witness: two successful calls with the same state and target, one of which
\* adopted a cached state that a cancelled call had left, the other not.
C5_Witness ==
  \E p, q \in Procs :
    /\ Returned(p) /\ Returned(q)
    /\ procs[p].input = procs[q].input /\ procs[p].slot = procs[q].slot
    /\ procs[p].adopted /\ ~procs[q].adopted

\* C6: for one key, at most one call is in the slot-advancement loop at a time.
C6_SingleAdvancementPerKey ==
  \A p, q \in Procs :
    (p # q /\ procs[p].pc = "loop" /\ procs[q].pc = "loop") => procs[p].key # procs[q].key

(***************************************************************************)
(* FieldTrie (state/stateV0/field_trie.go): the per-field hash trie.        *)
(* Hashes are tagged tuples, so two different inputs never collide.  A      *)
(* trie is its layers: layers[1] holds the leaves, the last layer the top.  *)
(* Positions are counted from 0 in the code and from 1 in the sequences.    *)
(***************************************************************************)
FieldLength == 4
MaxElems == 3
MaxRecomputes == 2

TrieFields == {"blockRoots", "validators"}
\* The data type of a field; a field that is not an array of the state has none.
fieldMap(field) ==
  IF field = "blockRoots" THEN "basicArray"
  ELSE IF field = "validators" THEN "compositeArray"
  ELSE "none"
\* Elements are handed over as a value of some type (interface{}).
Elements(type, val) == [type |-> type, val |-> val]
NilElements == Elements("nil", <<>>)
ElementsOf(field, val) ==
  Elements(IF field = "blockRoots" THEN "[][]byte" ELSE "[]*ethpb.Validator", val)
TrieElems == {1, 2}

RECURSIVE ZeroHashes(_)
ZeroHashes(i) == IF i = 0 THEN <<"zero">> ELSE Hash2(ZeroHashes(i - 1), ZeroHashes(i - 1))
ZeroBytes == <<"zero">>
RECURSIVE Depth(_)
Depth(v) == IF v <= 1 THEN 0 ELSE 1 + Depth((v + 1) \div 2)
AddInMixin(root, length) == <<"mix", root, length>>

\* The root of one element: ToBytes32 of a byte array, HashTreeRoot of a validator.
rootCreator(field, e) == IF field = "blockRoots" THEN <<"b32", e>> ELSE <<"vroot", e>>
\* Faulty variant: the root of the first element whatever the index.
ElementAt_first(val, idx) == val[1]
ElementAt(val, idx) == val[idx + 1]
IndexTooLarge(val, indices) == \E k \in 1..Len(indices) : indices[k] > Len(val) - 1
ConvertRoots(field, val, indices, convertAll) ==
  IF convertAll
    THEN [ok |-> TRUE, roots |-> [k \in 1..Len(val) |-> rootCreator(field, val[k])]]
    ELSE IF Len(val) > 0
      THEN IF IndexTooLarge(val, indices)
        THEN [ok |-> FALSE, roots |-> <<>>]
        ELSE [ok |-> TRUE,
              roots |-> [k \in 1..Len(indices) |-> rootCreator(field, ElementAt(val, indices[k]))]]
      ELSE [ok |-> TRUE, roots |-> <<>>]
handleByteArrays(val, indices, convertAll) == ConvertRoots("blockRoots", val, indices, convertAll)
handleValidatorSlice(val, indices, convertAll) == ConvertRoots("validators", val, indices, convertAll)
\* lines 143-176
fieldConverters(field, indices, elements, convertAll) ==
  IF field = "blockRoots"
    THEN IF elements.type # "[][]byte" THEN [ok |-> FALSE, roots |-> <<>>]
         ELSE handleByteArrays(elements.val, indices, convertAll)
  ELSE IF field = "validators"
    THEN IF elements.type # "[]*ethpb.Validator" THEN [ok |-> FALSE, roots |-> <<>>]
         ELSE handleValidatorSlice(elements.val, indices, convertAll)
  ELSE [ok |-> FALSE, roots |-> <<>>]

\* stateutil.ReturnTrieLayer: pairwise hashes of a full vector of leaves.
PairUp(layer) == [j \in 1..(Len(layer) \div 2) |-> Hash2(layer[2 * j - 1], layer[2 * j])]
RECURSIVE LayersAbove(_, _)
LayersAbove(layer, more) ==
  IF more = 0 \/ Len(layer) <= 1 THEN <<layer>> ELSE <<layer>> \o LayersAbove(PairUp(layer), more - 1)
ReturnTrieLayer(roots, length) ==
  IF Len(roots) = 1 THEN <<roots>> ELSE LayersAbove(roots, Depth(length))

\* stateutil.ReturnTrieLayerVariable: an odd layer is padded with the zero
\* hash of its height while its parents are computed.
PadOdd(layer, i) == IF Len(layer) % 2 = 1 THEN Append(layer, ZeroHashes(i)) ELSE layer
RECURSIVE VariableLayersAbove(_, _, _)
VariableLayersAbove(layer, i, depth) ==
  IF i = depth THEN <<layer>>
  ELSE <<layer>> \o VariableLayersAbove(PairUp(PadOdd(layer, i)), i + 1, depth)
ReturnTrieLayerVariable(roots, length) ==
  IF Len(roots) = 0
    THEN [i \in 1..(Depth(length) + 1) |->
            IF i = Depth(length) + 1 THEN <<ZeroHashes(Depth(length))>> ELSE <<>>]
    ELSE VariableLayersAbove(roots, 0, Depth(length))

\* One step up the trie from position cur of layer i (counted from 1) with
\* the hash root of that position: the parent is hashed from the stored
\* neighbour and written into the layer above.
Neighbour(layers, i, cur, absent) ==
  LET n == IF cur % 2 = 0 THEN cur + 1 ELSE cur - 1
  IN IF n < Len(layers[i]) THEN layers[i][n + 1] ELSE absent
ParentHash(root, neighbour, cur) ==
  IF cur % 2 = 0 THEN Hash2(root, neighbour) ELSE Hash2(neighbour, root)
SetParent(layers, i, parentIdx, h, appendWhenPast) ==
  IF Len(layers[i + 1]) = 0 \/ (appendWhenPast /\ parentIdx >= Len(layers[i + 1]))
    THEN [layers EXCEPT ![i + 1] = Append(@, h)]
    ELSE [layers EXCEPT ![i + 1][parentIdx + 1] = h]
RECURSIVE Climb(_, _, _, _, _)
Climb(layers, i, cur, root, variable) ==
  IF i >= Len(layers) THEN [root |-> root, layers |-> layers]
  ELSE Climb(SetParent(layers, i, cur \div 2,
                       ParentHash(root, Neighbour(layers, i, cur,
                                    IF variable THEN ZeroHashes(i - 1) ELSE ZeroBytes), cur),
                       variable),
             i + 1, cur \div 2,
             ParentHash(root, Neighbour(layers, i, cur,
                          IF variable THEN ZeroHashes(i - 1) ELSE ZeroBytes), cur),
             variable)

\* stateutil.RecomputeFromLayer: every changed leaf is written first, then
\* the ancestors of each changed index are rehashed in turn.
RECURSIVE SetLeaves(_, _, _, _)
SetLeaves(leaves, roots, indices, k) ==
  IF k > Len(indices) THEN leaves
  ELSE SetLeaves([leaves EXCEPT ![indices[k] + 1] = roots[k]], roots, indices, k + 1)
RECURSIVE RehashFrom(_, _, _, _)
RehashFrom(r, indices, k, variable) ==
  IF k > Len(indices) THEN r
  ELSE RehashFrom(Climb(r.layers, 1, indices[k], r.layers[1][indices[k] + 1], variable),
                  indices, k + 1, variable)
TrieRes(ok, root, layers) == [ok |-> ok, root |-> root, layers |-> layers]
\* The call does not return: an index past the end of a slice is a panic.
Panicked(layers) == TrieRes(FALSE, <<"panic">>, layers)
InLeaves(layers, indices) == \A k \in 1..Len(indices) : indices[k] < Len(layers[1])
RecomputeFromLayer(roots, indices, layers) ==
  IF Len(roots) < Len(indices) \/ ~InLeaves(layers, indices)
    THEN Panicked(layers)
    ELSE LET set == [layers EXCEPT ![1] = SetLeaves(@, roots, indices, 1)]
             r == RehashFrom([root |-> set[1][1], layers |-> set], indices, 1, FALSE)
         IN TrieRes(TRUE, r.root, r.layers)

\* stateutil.RecomputeFromLayerVariable: index by index, the leaves grow
\* (padded with zero hashes) up to the index, the leaf is written and its
\* ancestors rehashed.
RECURSIVE PadTo(_, _)
PadTo(leaves, idx) == IF idx < Len(leaves) THEN leaves ELSE PadTo(Append(leaves, ZeroHashes(0)), idx)
recomputeRootFromLayerVariable(idx, item, layers) ==
  Climb([layers EXCEPT ![1] = [PadTo(@, idx) EXCEPT ![idx + 1] = item]], 1, idx, item, TRUE)
RECURSIVE RecomputeVariableFrom(_, _, _, _)
RecomputeVariableFrom(r, roots, indices, k) ==
  IF k > Len(indices) THEN r
  ELSE RecomputeVariableFrom(recomputeRootFromLayerVariable(indices[k], roots[k], r.layers),
                             roots, indices, k + 1)
RecomputeFromLayerVariable(roots, indices, layers) ==
  IF Len(roots) < Len(indices)
    THEN Panicked(layers)
    ELSE LET r == RecomputeVariableFrom([root |-> layers[Len(layers)][1], layers |-> layers],
                                        roots, indices, 1)
         IN TrieRes(TRUE, r.root, r.layers)

FieldTrie(field, layers) == [field |-> field, fieldLayers |-> layers]
NoFieldTrie == FieldTrie("none", <<>>)
NewFieldTrie(field, elements, length) ==
  IF elements = NilElements THEN FieldTrie(field, <<>>)
  ELSE IF fieldMap(field) = "none" \/ ~fieldConverters(field, <<>>, elements, TRUE).ok
    THEN NoFieldTrie
  ELSE IF fieldMap(field) = "basicArray"
    THEN FieldTrie(field, ReturnTrieLayer(fieldConverters(field, <<>>, elements, TRUE).roots, length))
    ELSE FieldTrie(field,
                   ReturnTrieLayerVariable(fieldConverters(field, <<>>, elements, TRUE).roots, length))
TrieRoot(f) ==
  IF fieldMap(f.field) = "basicArray"
    THEN f.fieldLayers[Len(f.fieldLayers)][1]
    ELSE AddInMixin(f.fieldLayers[Len(f.fieldLayers)][1], Len(f.fieldLayers[1]))
RecomputeWith(f, indices, conv) ==
  IF fieldMap(f.field) = "none" THEN TrieRes(FALSE, ZeroBytes, f.fieldLayers)
  ELSE IF ~conv.ok THEN TrieRes(FALSE, ZeroBytes, f.fieldLayers)
  ELSE IF Len(f.fieldLayers) = 0 THEN Panicked(f.fieldLayers)
  ELSE IF fieldMap(f.field) = "basicArray"
    THEN RecomputeFromLayer(conv.roots, indices, f.fieldLayers)
    ELSE LET r == RecomputeFromLayerVariable(conv.roots, indices, f.fieldLayers)
         IN TrieRes(r.ok, AddInMixin(r.root, Len(r.layers[1])), r.layers)
RecomputeTrie(f, indices, elements) ==
  IF Len(indices) = 0
    THEN IF fieldMap(f.field) = "none" THEN TrieRes(FALSE, ZeroBytes, f.fieldLayers)
         ELSE IF Len(f.fieldLayers) = 0 THEN Panicked(f.fieldLayers)
         ELSE TrieRes(TRUE, TrieRoot(f), f.fieldLayers)
    ELSE RecomputeWith(f, indices, fieldConverters(f.field, indices, elements, FALSE))

\* Tries as objects.  The memory is a list of arrays, an array being the
\* hashes a layer points at; a trie holds the addresses of the arrays of its
\* layers and its reference count.  Recomputing stores into the arrays of
\* the trie (layer[0][idx] = ..., layers[i+1][parentIdx] = ...).
TrieObject(field, addrs, reference) ==
  [field |-> field, fieldLayers |-> addrs, reference |-> reference]
LayersOf(h, f) == [i \in 1..Len(f.fieldLayers) |-> h[f.fieldLayers[i]]]
ContentOf(h, f) == FieldTrie(f.field, LayersOf(h, f))
StoreLayers(h, f, layers) ==
  [a \in 1..Len(h) |->
     IF \E i \in 1..Len(f.fieldLayers) : f.fieldLayers[i] = a
       THEN layers[CHOOSE i \in 1..Len(f.fieldLayers) : f.fieldLayers[i] = a]
       ELSE h[a]]
\* NewFieldTrie as an object: the layers are new arrays, the count is 1.
NewTrieObject(h, f) ==
  [heap |-> h \o f.fieldLayers,
   trie |-> TrieObject(f.field, [i \in 1..Len(f.fieldLayers) |-> Len(h) + i], 1)]
\* Faulty variant: the copy holds the arrays of the original.
CopyTrie_sharedLayers(h, f) == [heap |-> h, trie |-> TrieObject(f.field, f.fieldLayers, 1)]
\* lines 104-123: every layer is a new array filled from the layer of the
\* original (make, copy); the count of the copy is 1.
CopyTrie(h, f) ==
  IF f.fieldLayers = <<>>
    THEN [heap |-> h, trie |-> TrieObject(f.field, <<>>, 1)]
    ELSE [heap |-> h \o LayersOf(h, f),
          trie |-> TrieObject(f.field, [i \in 1..Len(f.fieldLayers) |-> Len(h) + i], 1)]
\* RecomputeTrie on the trie at its arrays.
RecomputeTrieAt(h, f, indices, elements) ==
  LET r == RecomputeTrie(ContentOf(h, f), indices, elements)
  IN [ok |-> r.ok, root |-> r.root,
      heap |-> IF r.ok THEN StoreLayers(h, f, r.layers) ELSE h]
\* The content of a copy of the trie of the given content.
CopyOf(f) ==
  LET o == NewTrieObject(<<>>, f)
      c == CopyTrie(o.heap, o.trie)
  IN ContentOf(c.heap, c.trie)

(***************************************************************************)
(* SpecTrie: a trie built by NewFieldTrie over a bounded list of elements,  *)
(* then RecomputeTrie calls with new elements and a list of changed         *)
(* indices (sorted, without duplicates, as the state hands them over).      *)
(* bstate.elems is the list the trie was last recomputed for and            *)
(* bstate.covered tells whether every call so far named every position      *)
(* that differed.                                                           *)
(***************************************************************************)
ElementLists(field) ==
  IF fieldMap(field) = "basicArray"
    THEN [1..FieldLength -> TrieElems]
    ELSE UNION {[1..n -> TrieElems] : n \in 0..MaxElems}
RECURSIVE SortedSeq(_)
SortedSeq(S) ==
  IF S = {} THEN <<>>
  ELSE LET m == CHOOSE x \in S : \A y \in S : x <= y IN <<m>> \o SortedSeq(S \ {m})
IndexLists == {SortedSeq(S) : S \in SUBSET (0..(FieldLength - 1))}
Differs(old, new, i) ==
  \/ (i <= Len(old)) # (i <= Len(new))
  \/ i <= Len(old) /\ i <= Len(new) /\ old[i] # new[i]
Covers(indices, old, new) ==
  \A i \in 1..FieldLength :
    Differs(old, new, i) => \E k \in 1..Len(indices) : indices[k] = i - 1
TrieState(f, elems, covered) ==
  [field |-> f.field, fieldLayers |-> f.fieldLayers, elems |-> elems, covered |-> covered]
TrieCall(op, r, indices, old, new) ==
  [op |-> op, ok |-> r.ok, root |-> r.root, nidx |-> Len(indices),
   grew |-> Len(new) > Len(old), shrank |-> Len(new) < Len(old)]
InitTrie ==
  /\ \E field \in TrieFields : \E elems \in ElementLists(field) :
       bstate = TrieState(NewFieldTrie(field, ElementsOf(field, elems), FieldLength), elems, TRUE)
  /\ last = TrieCall("NewFieldTrie", TrieRes(TRUE, TrieRoot(bstate), bstate.fieldLayers),
                     <<>>, bstate.elems, bstate.elems)
  /\ nops = 0
  /\ StfIdle
OpRecomputeTrie ==
  \E elems \in ElementLists(bstate.field), indices \in IndexLists :
    LET r == RecomputeTrie(bstate, indices, ElementsOf(bstate.field, elems))
    IN /\ nops < MaxRecomputes
       /\ bstate.covered
       /\ last' = TrieCall("RecomputeTrie", r, indices, bstate.elems, elems)
       /\ bstate' = IF r.ok
                      THEN TrieState(FieldTrie(bstate.field, r.layers), elems,
                                     Covers(indices, bstate.elems, elems))
                      ELSE bstate
       /\ nops' = nops + 1
       /\ UNCHANGED stfVars
OpCopyTrie ==
  /\ nops < MaxRecomputes
  /\ bstate.covered
  /\ bstate' = TrieState(CopyOf(bstate), bstate.elems, bstate.covered)
  /\ last' = TrieCall("CopyTrie", TrieRes(TRUE, TrieRoot(bstate), bstate.fieldLayers),
                      <<>>, bstate.elems, bstate.elems)
  /\ nops' = nops + 1
  /\ UNCHANGED stfVars
NextTrie ==
  \/ OpRecomputeTrie
  \/ OpCopyTrie
SpecTrie == InitTrie /\ [][NextTrie]_vars

\* C11: whenever every RecomputeTrie call so far named every changed position
\* and the last one returned a root, that root is the root of a trie built
\* by NewFieldTrie over the final elements with the same capacity (with the
\* length mixed in for the variable-length field).
C11_RecomputeEqualsRebuild ==
  (last.op = "RecomputeTrie" /\ last.ok /\ bstate.covered)
    => last.root = TrieRoot(NewFieldTrie(bstate.field, ElementsOf(bstate.field, bstate.elems), FieldLength))
C11_Witness ==
  /\ last.op = "RecomputeTrie" /\ last.ok /\ bstate.covered
  /\ nops = MaxRecomputes
  /\ fieldMap(bstate.field) = "compositeArray"
  /\ last.grew
  /\ last.nidx = 2
  /\ last.root = TrieRoot(NewFieldTrie(bstate.field, ElementsOf(bstate.field, bstate.elems), FieldLength))

(***************************************************************************)
(* Beacon committees (core/helpers/committee.go).  The active validator     *)
(* indices are an ascending list; the seed selects the permutation that     *)
(* UnshuffleList applies.  The committee cache holds, per seed, the         *)
(* shuffled list and the committee count that UpdateCommitteeCache stored.  *)
(***************************************************************************)
TargetCommitteeSize == 1
MaxCommitteesPerSlot == 2
MaxActive == 5

Seeds == {1, 2}
SlotCommitteeCount(activeValidatorCount) ==
  LET committeePerSlot == (activeValidatorCount \div SlotsPerEpoch) \div TargetCommitteeSize
  IN IF committeePerSlot > MaxCommitteesPerSlot THEN MaxCommitteesPerSlot
     ELSE IF committeePerSlot = 0 THEN 1
     ELSE committeePerSlot
\* The permutation of a seed: the list reversed and rotated by the seed.
UnshuffleList(indices, seed) ==
  [i \in 1..Len(indices) |-> indices[((Len(indices) - i + seed) % Len(indices)) + 1]]
SplitOffset(listSize, chunks, index) == (listSize * index) \div chunks
CommitteeRes(ok, committee) == [ok |-> ok, committee |-> committee]
Slice(list, start, end) == [i \in 1..(end - start) |-> list[start + i]]
ComputeCommittee(indices, seed, index, count) ==
  IF \/ SplitOffset(Len(indices), count, index) > Len(indices)
     \/ SplitOffset(Len(indices), count, index + 1) > Len(indices)
    THEN CommitteeRes(FALSE, <<>>)
    ELSE CommitteeRes(TRUE, Slice(UnshuffleList(indices, seed),
                                  SplitOffset(Len(indices), count, index),
                                  SplitOffset(Len(indices), count, index + 1)))
\* Faulty variant: the slot's offset is not scaled by the committees per slot.
EpochOffset_unscaled(slot, committeeIndex, committeesPerSlot) ==
  committeeIndex + (slot % SlotsPerEpoch)
EpochOffset(slot, committeeIndex, committeesPerSlot) ==
  committeeIndex + (slot % SlotsPerEpoch) * committeesPerSlot
\* cache.CommitteeCache.Committee: the slice of the cached shuffled list, or
\* nothing when the seed has no entry.
CommitteeCacheHas(c, seed) == \E e \in c : e.seed = seed
CommitteeCacheEntry(c, seed) == CHOOSE e \in c : e.seed = seed
\* A slice past the end of the cached list is a run-time panic: no committee.
CachedSlice(list, start, end) ==
  IF end > Len(list) THEN CommitteeRes(FALSE, <<>>) ELSE CommitteeRes(TRUE, Slice(list, start, end))
CachedCommittee(e, slot, committeeIndex) ==
  CachedSlice(e.shuffled,
              SplitOffset(Len(e.shuffled), e.count,
                          EpochOffset(slot, committeeIndex, e.count \div SlotsPerEpoch)),
              SplitOffset(Len(e.shuffled), e.count,
                          EpochOffset(slot, committeeIndex, e.count \div SlotsPerEpoch) + 1))
BeaconCommittee(c, validatorIndices, seed, slot, committeeIndex) ==
  IF CommitteeCacheHas(c, seed)
    THEN CachedCommittee(CommitteeCacheEntry(c, seed), slot, committeeIndex)
    ELSE ComputeCommittee(validatorIndices, seed,
                          EpochOffset(slot, committeeIndex,
                                      SlotCommitteeCount(Len(validatorIndices))),
                          SlotCommitteeCount(Len(validatorIndices)) * SlotsPerEpoch)
ShuffledIndices(active, seed) == UnshuffleList(active, seed)
\* The attester seed of an epoch: st.seed is that of st.epoch, and the seeds
\* of different epochs differ.
Seed(st, e) == st.seed + e - st.epoch
\* committeeCache.AddCommitteeShuffledList.
AddCommitteeShuffledList(c, entry) == c \cup {entry}
\* lines 294-327: one round of the loop over the two epochs; done tells that
\* the function has returned.
UpdateRound(r, st, e) ==
  IF r.done THEN r
  ELSE IF CommitteeCacheHas(r.cache, Seed(st, e)) THEN [r EXCEPT !.done = TRUE]
  ELSE [r EXCEPT !.cache =
          AddCommitteeShuffledList(@,
            [seed |-> Seed(st, e),
             shuffled |-> ShuffledIndices(st.active, Seed(st, e)),
             count |-> SlotsPerEpoch * SlotCommitteeCount(Len(st.active))])]
UpdateCommitteeCache(c, st, epoch) ==
  UpdateRound(UpdateRound([cache |-> c, done |-> FALSE], st, epoch), st, epoch + 1).cache

(***************************************************************************)
(* SpecCommittee: one epoch with its active indices and seed; committees    *)
(* are asked for with and without a cache entry for the seed.               *)
(***************************************************************************)
ActiveLists == {SortedSeq(S) : S \in SUBSET (0..(MaxActive - 1))}
EpochSlots(epoch) == (epoch * SlotsPerEpoch)..(epoch * SlotsPerEpoch + SlotsPerEpoch - 1)
CommitteeCall(op, slot, index, r) ==
  [op |-> op, slot |-> slot, index |-> index, ok |-> r.ok, committee |-> r.committee]
InitCommittee ==
  /\ \E active \in ActiveLists, seed \in Seeds, epoch \in 0..1 :
       bstate = [active |-> active, seed |-> seed, epoch |-> epoch, cache |-> {}]
  /\ last = CommitteeCall("none", 0, 0, CommitteeRes(TRUE, <<>>))
  /\ nops = 0
  /\ StfIdle
OpBeaconCommittee ==
  \E slot \in EpochSlots(bstate.epoch), index \in 0..MaxCommitteesPerSlot :
    /\ last' = CommitteeCall("BeaconCommittee", slot, index,
                             BeaconCommittee(bstate.cache, bstate.active, bstate.seed, slot, index))
    /\ UNCHANGED <<bstate, nops>>
    /\ UNCHANGED stfVars
OpUpdateCommitteeCache ==
  /\ bstate' = [bstate EXCEPT !.cache = UpdateCommitteeCache(@, bstate, bstate.epoch)]
  /\ last' = CommitteeCall("UpdateCommitteeCache", 0, 0, CommitteeRes(TRUE, <<>>))
  /\ UNCHANGED nops
  /\ UNCHANGED stfVars
NextCommittee ==
  \/ OpBeaconCommittee
  \/ OpUpdateCommitteeCache
SpecCommittee == InitCommittee /\ [][NextCommittee]_vars

CommitteeKeys(st) ==
  EpochSlots(st.epoch) \X (0..(SlotCommitteeCount(Len(st.active)) - 1))
CommitteeOf(st, k) == BeaconCommittee(st.cache, st.active, st.seed, k[1], k[2])
Members(seq) == {seq[i] : i \in 1..Len(seq)}
ExpectedCommittee(st, k) ==
  LET cps == SlotCommitteeCount(Len(st.active))
      n == Len(st.active)
      kk == (k[1] % SlotsPerEpoch) * cps + k[2]
      count == cps * SlotsPerEpoch
  IN SubSeq(UnshuffleList(st.active, st.seed), ((n * kk) \div count) + 1, (n * (kk + 1)) \div count)

\* C12: over every slot of the epoch and every committee index below the
\* committees per slot, the committees returned by BeaconCommittee are
\* pairwise disjoint, their union is the active set, and each is the slice
\* shuffled[start:end] of its position k among count committees.
C12_CommitteesPartitionActiveSet ==
  /\ \A k \in CommitteeKeys(bstate) :
       /\ CommitteeOf(bstate, k).ok
       /\ CommitteeOf(bstate, k).committee = ExpectedCommittee(bstate, k)
  /\ \A k1, k2 \in CommitteeKeys(bstate) :
       k1 # k2 => Members(CommitteeOf(bstate, k1).committee)
                    \cap Members(CommitteeOf(bstate, k2).committee) = {}
  /\ UNION {Members(CommitteeOf(bstate, k).committee) : k \in CommitteeKeys(bstate)}
       = Members(bstate.active)
  /\ (last.op = "BeaconCommittee" /\ <<last.slot, last.index>> \in CommitteeKeys(bstate))
       => (last.ok /\ last.committee = ExpectedCommittee(bstate, <<last.slot, last.index>>))
C12_Witness ==
  /\ last.op = "BeaconCommittee" /\ last.ok
  /\ Len(bstate.active) = MaxActive
  /\ SlotCommitteeCount(Len(bstate.active)) = 2
  /\ bstate.epoch = 1
  /\ last.index = 1
  /\ last.slot % SlotsPerEpoch = 1
  /\ Len(last.committee) = 2
  /\ bstate.cache = {}

(***************************************************************************)
(* Attestations (core/blocks, exercised by attestation_regression_test.go). *)
(* The state of an attestation check: its slot, the active validator        *)
(* indices, the two justified checkpoints and the pending attestations of   *)
(* the current and the previous epoch.                                      *)
(***************************************************************************)
MinAttestationInclusionDelay == 1
AttSeed == 1
CheckpointRoots == {"hello-world", "zero"}
Checkpoint(epoch, root) == [epoch |-> epoch, root |-> root]
SlotToEpoch(slot) == slot \div SlotsPerEpoch
CurrentEpoch(s) == SlotToEpoch(s.slot)
PrevEpoch(s) == IF CurrentEpoch(s) = 0 THEN 0 ELSE CurrentEpoch(s) - 1
AttErr(msg) == [ok |-> FALSE, err |-> msg]
AttOK == [ok |-> TRUE, err |-> <<>>]
\* Faulty variant: only the roots of the two checkpoints are compared.
MatchCheckpoint_rootOnly(c, source) == c.root = source.root
MatchCheckpoint(c, source) == c.epoch = source.epoch /\ c.root = source.root
MatchCurrentJustifiedCheckpoint(s, source) == MatchCheckpoint(s.cjc, source)
MatchPreviousJustifiedCheckpoint(s, source) == MatchCheckpoint(s.pjc, source)
ValidateSlotTargetEpoch(data) == SlotToEpoch(data.slot) = data.target.epoch
ActiveValidatorCount(s, epoch) == Len(s.active)
\* Faulty variant: an index equal to the committee count passes.
CommitteeIndexTooHigh_offByOne(index, count) == index > count
CommitteeIndexTooHigh(index, count) == index >= count
BeaconCommitteeFromState(s, slot, committeeIndex) ==
  BeaconCommittee({}, s.active, AttSeed, slot, committeeIndex)
VerifyBitfieldLength(bitsLen, committeeSize) == bitsLen = committeeSize
VerifyAttestationBitfieldLengths(s, att) ==
  /\ BeaconCommitteeFromState(s, att.data.slot, att.data.index).ok
  /\ VerifyBitfieldLength(att.bitsLen,
                          Len(BeaconCommitteeFromState(s, att.data.slot, att.data.index).committee))
SourceMatches(s, data) ==
  IF data.target.epoch = CurrentEpoch(s)
    THEN MatchCurrentJustifiedCheckpoint(s, data.source)
    ELSE MatchPreviousJustifiedCheckpoint(s, data.source)
TargetOutside(s, data) ==
  data.target.epoch # PrevEpoch(s) /\ data.target.epoch # CurrentEpoch(s)
VerifyAttestationNoVerifySignature(s, att) ==
  IF TargetOutside(s, att.data)
    THEN AttErr(<<"expected target epoch to be the previous or the current epoch">>)
  ELSE IF ~SourceMatches(s, att.data)
    THEN AttErr(<<"source check point not equal to justified checkpoint">>)
  ELSE IF ~ValidateSlotTargetEpoch(att.data)
    THEN AttErr(<<"slot does not match target epoch">>)
  ELSE IF ~(att.data.slot + MinAttestationInclusionDelay <= s.slot)
    THEN AttErr(<<"attestation slot + min inclusion delay > state slot">>)
  ELSE IF ~(s.slot <= att.data.slot + SlotsPerEpoch)
    THEN AttErr(<<"state slot > attestation slot + slots per epoch">>)
  ELSE IF CommitteeIndexTooHigh(att.data.index,
                                SlotCommitteeCount(ActiveValidatorCount(s, att.data.target.epoch)))
    THEN AttErr(<<"committee index", att.data.index, ">= committee count",
                  SlotCommitteeCount(ActiveValidatorCount(s, att.data.target.epoch))>>)
  ELSE IF ~VerifyAttestationBitfieldLengths(s, att)
    THEN AttErr(<<"failed to verify aggregation bitfield">>)
  ELSE AttOK
PendingAttestation(s, att) ==
  [data |-> att.data, bitsLen |-> att.bitsLen, inclusionDelay |-> s.slot - att.data.slot]
ProcessAttestationNoVerifySignature(s, att) ==
  IF ~VerifyAttestationNoVerifySignature(s, att).ok
    THEN [ok |-> FALSE, err |-> VerifyAttestationNoVerifySignature(s, att).err, state |-> s]
    ELSE [ok |-> TRUE, err |-> <<>>,
          state |-> IF att.data.target.epoch = CurrentEpoch(s)
                      THEN [s EXCEPT !.curAtts = Append(@, PendingAttestation(s, att))]
                      ELSE [s EXCEPT !.prevAtts = Append(@, PendingAttestation(s, att))]]

(***************************************************************************)
(* SpecAtt: a state at some slot with its justified checkpoints, and        *)
(* attestations drawn over slot, committee index, source, target and the    *)
(* length of the aggregation bits.                                          *)
(***************************************************************************)
AttActiveLists == {SortedSeq(0..(n - 1)) : n \in {3, 4}}
SourceEpochs == {0, 1, 99}
AttStates ==
  {[slot |-> slot, active |-> active, cjc |-> cjc, pjc |-> pjc,
    curAtts |-> <<>>, prevAtts |-> <<>>] :
     slot \in 1..MaxSlot, active \in AttActiveLists,
     cjc \in {Checkpoint(e, r) : e \in 0..1, r \in CheckpointRoots},
     pjc \in {Checkpoint(0, r) : r \in CheckpointRoots}}
Attestations ==
  {[data |-> [slot |-> slot, index |-> index, source |-> Checkpoint(se, sr),
              target |-> [epoch |-> te]],
    bitsLen |-> bitsLen] :
     slot \in 0..MaxSlot, index \in 0..MaxCommitteesPerSlot, se \in SourceEpochs,
     sr \in CheckpointRoots, te \in 0..1, bitsLen \in 1..2}
AttCall(op, r, pre, att) == [op |-> op, ok |-> r.ok, err |-> r.err, pre |-> pre, att |-> att]
\* A further attestation is tried on a state that the last one extended.
AttContinue == nops < MaxOps /\ (nops = 0 \/ bstate # last.pre)
InitAtt ==
  /\ bstate \in {s \in AttStates : s.cjc.epoch <= CurrentEpoch(s)}
  /\ last = AttCall("none", AttOK, bstate, <<>>)
  /\ nops = 0
  /\ StfIdle
OpProcessAttestationNoVerifySignature ==
  \E att \in Attestations :
    /\ AttContinue
    /\ bstate' = ProcessAttestationNoVerifySignature(bstate, att).state
    /\ last' = AttCall("ProcessAttestationNoVerifySignature",
                       ProcessAttestationNoVerifySignature(bstate, att), bstate, att)
    /\ nops' = nops + 1
    /\ UNCHANGED stfVars
OpVerifyAttestationNoVerifySignature ==
  \E att \in Attestations :
    /\ AttContinue
    /\ last' = AttCall("VerifyAttestationNoVerifySignature",
                       VerifyAttestationNoVerifySignature(bstate, att), bstate, att)
    /\ nops' = nops + 1
    /\ UNCHANGED bstate
    /\ UNCHANGED stfVars
NextAtt ==
  \/ OpProcessAttestationNoVerifySignature
  \/ OpVerifyAttestationNoVerifySignature
SpecAtt == InitAtt /\ [][NextAtt]_vars

PassesUpToIndexCheck(s, att) ==
  /\ ~TargetOutside(s, att.data)
  /\ SourceMatches(s, att.data)
  /\ ValidateSlotTargetEpoch(att.data)
  /\ att.data.slot + MinAttestationInclusionDelay <= s.slot
  /\ s.slot <= att.data.slot + SlotsPerEpoch

\* C13: an attestation whose committee index is not below the committee
\* count per slot is rejected and the pending attestations are not extended;
\* when it is otherwise well-formed the error is 'committee index i >=
\* committee count c'.
C13_CommitteeIndexBelowCount ==
  (/\ last.op = "ProcessAttestationNoVerifySignature"
   /\ last.att.data.index >= SlotCommitteeCount(Len(last.pre.active)))
    => /\ ~last.ok
       /\ bstate.curAtts = last.pre.curAtts
       /\ bstate.prevAtts = last.pre.prevAtts
       /\ PassesUpToIndexCheck(last.pre, last.att)
            => last.err = <<"committee index", last.att.data.index, ">= committee count",
                            SlotCommitteeCount(Len(last.pre.active))>>
C13_Witness ==
  /\ last.op = "ProcessAttestationNoVerifySignature"
  /\ SlotCommitteeCount(Len(last.pre.active)) = 1
  /\ last.att.data.index = 1
  /\ PassesUpToIndexCheck(last.pre, last.att)
  /\ last.err = <<"committee index", 1, ">= committee count", 1>>
  /\ bstate.curAtts = <<>>

JustifiedFor(s, data) == IF data.target.epoch = CurrentEpoch(s) THEN s.cjc ELSE s.pjc
\* C14: VerifyAttestationNoVerifySignature rejects every attestation whose
\* target is the current or the previous epoch and whose source differs, in
\* epoch or in root, from the justified checkpoint of that epoch.
C14_SourceMustEqualJustified ==
  (/\ last.op = "VerifyAttestationNoVerifySignature"
   /\ ~TargetOutside(last.pre, last.att.data)
   /\ \/ last.att.data.source.epoch # JustifiedFor(last.pre, last.att.data).epoch
      \/ last.att.data.source.root # JustifiedFor(last.pre, last.att.data).root)
    => ~last.ok
C14_Witness ==
  /\ last.op = "VerifyAttestationNoVerifySignature"
  /\ ~last.ok
  /\ last.pre.slot = MinAttestationInclusionDelay
  /\ last.pre.cjc = Checkpoint(0, "hello-world")
  /\ last.att.data.source = Checkpoint(99, "hello-world")
  /\ last.att.data.target.epoch = 0
  /\ last.att.data.slot = 0
  /\ last.att.data.index = 0

(***************************************************************************)
(* Voluntary exits (core/blocks/exit.go).  A validator of the exit state    *)
(* has an activation epoch (ae), an exit epoch and a withdrawable epoch     *)
(* (wd); a signed exit names a validator index and an epoch and carries a   *)
(* signature that verifies under the validator's key or does not.           *)
(***************************************************************************)
ShardCommitteePeriod == 2
MaxSeedLookahead == 1
MinValidatorWithdrawabilityDelay == 1
MaxEpoch == 4
MaxExits == 2

IsActiveValidatorUsingTrie(v, epoch) == v.ae <= epoch /\ epoch < v.exit
ExitErr(msg) == [ok |-> FALSE, err |-> msg]
ExitOK == [ok |-> TRUE, err |-> <<>>]
\* Faulty variant: the epoch in which the period is completed is still too early.
ActiveTooShort_inclusive(currentEpoch, v) == currentEpoch <= v.ae + ShardCommitteePeriod
ActiveTooShort(currentEpoch, v) == currentEpoch < v.ae + ShardCommitteePeriod
verifyExitConditions(v, currentSlot, exit) ==
  IF ~IsActiveValidatorUsingTrie(v, SlotToEpoch(currentSlot))
    THEN ExitErr("non-active validator cannot exit")
  ELSE IF v.exit # FarFutureEpoch
    THEN ExitErr("validator has already submitted an exit, which will take place at epoch")
  ELSE IF SlotToEpoch(currentSlot) < exit.epoch
    THEN ExitErr("expected current epoch >= exit epoch")
  ELSE IF ActiveTooShort(SlotToEpoch(currentSlot), v)
    THEN ExitErr("validator has not been active long enough to exit")
  ELSE ExitOK
VerifyExitAndSignature(v, currentSlot, signed) ==
  IF signed.isNil THEN ExitErr("nil exit")
  ELSE IF ~verifyExitConditions(v, currentSlot, signed.exit).ok
    THEN verifyExitConditions(v, currentSlot, signed.exit)
  ELSE IF ~signed.sigValid THEN ExitErr("signature did not verify")
  ELSE ExitOK
\* validators.InitiateValidatorExit: the exit epoch is the latest exit epoch
\* already handed out, not before the activation-exit epoch of the current
\* epoch; a validator that already exits is left alone.
ActivationExitEpoch(epoch) == epoch + 1 + MaxSeedLookahead
Max(a, b) == IF a >= b THEN a ELSE b
RECURSIVE LatestExit(_, _)
LatestExit(validators, k) ==
  IF k > Len(validators) THEN 0
  ELSE Max(IF validators[k].exit # FarFutureEpoch THEN validators[k].exit ELSE 0,
           LatestExit(validators, k + 1))
InitiateValidatorExit(s, idx) ==
  IF s.validators[idx + 1].exit # FarFutureEpoch THEN s
  ELSE [s EXCEPT !.validators[idx + 1].exit =
                    Max(LatestExit(s.validators, 1), ActivationExitEpoch(SlotToEpoch(s.slot))),
                 !.validators[idx + 1].wd =
                    Max(LatestExit(s.validators, 1), ActivationExitEpoch(SlotToEpoch(s.slot)))
                      + MinValidatorWithdrawabilityDelay]
\* The loop of ProcessVoluntaryExits from the k-th exit on.  seen lists, for
\* every exit the loop reached, the validator as it was and the verdict.
ExitStep(s, signed, r) ==
  [idx |-> signed.exit.validatorIndex, epoch |-> signed.exit.epoch, sigValid |-> signed.sigValid,
   before |-> s.validators[signed.exit.validatorIndex + 1], ok |-> r.ok, err |-> r.err]
RECURSIVE ExitLoop(_, _, _, _)
ExitLoop(s, exits, k, seen) ==
  IF k > Len(exits) THEN [ok |-> TRUE, err |-> <<>>, state |-> s, seen |-> seen]
  ELSE IF exits[k].isNil
    THEN [ok |-> FALSE, err |-> "nil voluntary exit in block body", state |-> s, seen |-> seen]
  ELSE IF exits[k].exit.validatorIndex >= Len(s.validators)
    THEN [ok |-> FALSE, err |-> "index out of range", state |-> s, seen |-> seen]
  ELSE IF ~VerifyExitAndSignature(s.validators[exits[k].exit.validatorIndex + 1], s.slot, exits[k]).ok
    THEN [ok |-> FALSE,
          err |-> VerifyExitAndSignature(s.validators[exits[k].exit.validatorIndex + 1],
                                         s.slot, exits[k]).err,
          state |-> s,
          seen |-> Append(seen, ExitStep(s, exits[k],
                     VerifyExitAndSignature(s.validators[exits[k].exit.validatorIndex + 1],
                                            s.slot, exits[k])))]
  ELSE ExitLoop(InitiateValidatorExit(s, exits[k].exit.validatorIndex), exits, k + 1,
                Append(seen, ExitStep(s, exits[k], ExitOK)))
ProcessVoluntaryExitsOf(s, exits) == ExitLoop(s, exits, 1, <<>>)

(***************************************************************************)
(* SpecExit: a state at the start of an epoch with two validators, the      *)
(* first drawn over activation and exit epochs, and a block's list of       *)
(* signed exits, processed by one call.                                     *)
(***************************************************************************)
ExitValidator(ae, exit) ==
  [ae |-> ae, exit |-> exit,
   wd |-> IF exit = FarFutureEpoch THEN FarFutureEpoch ELSE exit + MinValidatorWithdrawabilityDelay]
ExitStates ==
  {[slot |-> e * SlotsPerEpoch + off,
    validators |-> <<ExitValidator(ae, exit), ExitValidator(0, FarFutureEpoch)>>] :
     e \in 0..MaxEpoch, off \in 0..1, ae \in (0..MaxEpoch) \cup {FarFutureEpoch},
     exit \in {MaxEpoch, FarFutureEpoch}}
SignedExits(s) ==
  {[isNil |-> FALSE, sigValid |-> sig, exit |-> [validatorIndex |-> idx, epoch |-> ep]] :
     sig \in BOOLEAN, idx \in 0..2,
     ep \in {SlotToEpoch(s.slot), SlotToEpoch(s.slot) + 1}}
    \cup {[isNil |-> TRUE, sigValid |-> FALSE, exit |-> [validatorIndex |-> 0, epoch |-> 0]]}
ExitLists(s) == UNION {[1..n -> SignedExits(s)] : n \in 0..MaxExits}
ExitCall(op, r, pre, n) ==
  [op |-> op, ok |-> r.ok, err |-> r.err, seen |-> r.seen, pre |-> pre, n |-> n]
InitExit ==
  /\ bstate \in {s \in ExitStates : s.validators[1].ae <= s.validators[1].exit}
  /\ last = ExitCall("none", [ok |-> TRUE, err |-> <<>>, seen |-> <<>>], bstate, 0)
  /\ nops = 0
  /\ StfIdle
OpProcessVoluntaryExits ==
  \E exits \in ExitLists(bstate) :
    /\ nops = 0
    /\ bstate' = ProcessVoluntaryExitsOf(bstate, exits).state
    /\ last' = ExitCall("ProcessVoluntaryExits", ProcessVoluntaryExitsOf(bstate, exits),
                        bstate, Len(exits))
    /\ nops' = nops + 1
    /\ UNCHANGED stfVars
NextExit == OpProcessVoluntaryExits
SpecExit == InitExit /\ [][NextExit]_vars

ExitAcceptable(step, currentEpoch) ==
  /\ step.before.ae <= currentEpoch /\ currentEpoch < step.before.exit
  /\ step.before.exit = FarFutureEpoch
  /\ currentEpoch >= step.epoch
  /\ currentEpoch >= step.before.ae + ShardCommitteePeriod
  /\ step.sigValid
OtherExitConditions(step, currentEpoch) ==
  /\ step.before.ae <= currentEpoch
  /\ step.before.exit = FarFutureEpoch
  /\ currentEpoch >= step.epoch

\* C17: every exit the loop reached is accepted exactly when the validator is
\* active, has exit epoch FAR_FUTURE_EPOCH, the current epoch is at least the
\* exit's epoch and at least activation epoch + SHARD_COMMITTEE_PERIOD, and
\* the signature is valid; activation epoch = current - period + 1 is
\* rejected with 'has not been active long enough', activation epoch =
\* current - period passes that check; a rejected exit leaves its validator
\* as it was.
C17_ExitAcceptedIffConditions ==
  last.op = "ProcessVoluntaryExits" =>
    \A k \in 1..Len(last.seen) :
      /\ last.seen[k].ok <=> ExitAcceptable(last.seen[k], SlotToEpoch(last.pre.slot))
      /\ (/\ OtherExitConditions(last.seen[k], SlotToEpoch(last.pre.slot))
          /\ last.seen[k].before.ae + ShardCommitteePeriod = SlotToEpoch(last.pre.slot) + 1)
           => (~last.seen[k].ok
               /\ last.seen[k].err = "validator has not been active long enough to exit")
      /\ (/\ OtherExitConditions(last.seen[k], SlotToEpoch(last.pre.slot))
          /\ last.seen[k].before.ae + ShardCommitteePeriod = SlotToEpoch(last.pre.slot))
           => last.seen[k].err # "validator has not been active long enough to exit"
      /\ ~last.seen[k].ok =>
           (~last.ok /\ bstate.validators[last.seen[k].idx + 1] = last.seen[k].before)
      /\ last.seen[k].ok =>
           bstate.validators[last.seen[k].idx + 1].exit # FarFutureEpoch
C17_Witness ==
  /\ last.op = "ProcessVoluntaryExits"
  /\ Len(last.seen) = 2
  /\ last.seen[1].ok
  /\ last.seen[1].before.ae + ShardCommitteePeriod = SlotToEpoch(last.pre.slot)
  /\ ~last.seen[2].ok
  /\ last.seen[2].idx = last.seen[1].idx
  /\ bstate.validators[1].exit # FarFutureEpoch

(***************************************************************************)
(* Claims about the deposit operations (SpecOps), continued.                *)
(***************************************************************************)
PubkeysOf(s) == {ToBytes48(s.validators[i].pubkey) : i \in 1..Len(s.validators)}
IndexOfKey(s, k) == CHOOSE i \in 1..Len(s.validators) : ToBytes48(s.validators[i].pubkey) = k
EffectiveFor(balance) == Min(balance - (balance % EffectiveBalanceIncrement), MaxEffectiveBalance)
ActivationAsBefore(pre, post, k) ==
  IF k \in PubkeysOf(pre)
    THEN /\ post.validators[IndexOfKey(post, k)].aee = pre.validators[IndexOfKey(pre, k)].aee
         /\ post.validators[IndexOfKey(post, k)].ae = pre.validators[IndexOfKey(pre, k)].ae
    ELSE /\ post.validators[IndexOfKey(post, k)].aee = FarFutureEpoch
         /\ post.validators[IndexOfKey(post, k)].ae = FarFutureEpoch

\* C15: after ProcessPreGenesisDeposits has succeeded, every validator whose
\* pubkey is among the deposits has the effective balance min(balance -
\* balance mod increment, MAX) of its accumulated balance; when that is MAX
\* its activation eligibility and activation epochs are 0, otherwise they are
\* as they were; a pubkey whose deposits were skipped is passed over.
C15_PreGenesisEffectiveBalance ==
  (last.op = "ProcessPreGenesisDeposits" /\ last.ok) =>
    \A k \in last.keys :
      IF k \in PubkeysOf(bstate)
        THEN /\ bstate.validators[IndexOfKey(bstate, k)].eb
                  = EffectiveFor(bstate.balances[IndexOfKey(bstate, k)])
             /\ (bstate.validators[IndexOfKey(bstate, k)].eb = MaxEffectiveBalance)
                  => (/\ bstate.validators[IndexOfKey(bstate, k)].aee = 0
                      /\ bstate.validators[IndexOfKey(bstate, k)].ae = 0)
             /\ (bstate.validators[IndexOfKey(bstate, k)].eb < MaxEffectiveBalance)
                  => ActivationAsBefore(last.pre, bstate, k)
        ELSE k \in last.unsigned
\* C15 witness: two deposits below MAX for a new pubkey that together reach it.
C15_Witness ==
  /\ last.op = "ProcessPreGenesisDeposits" /\ last.ok
  /\ last.pre = Genesis
  /\ last.n = 2
  /\ Len(bstate.validators) = 2
  /\ bstate.balances[2] = 2 * (EffectiveBalanceIncrement + 1)
  /\ bstate.validators[2].eb = MaxEffectiveBalance
  /\ bstate.validators[2].ae = 0

\* C16: ProcessDeposits leaves the state, and returns the verdict, that
\* processing every deposit with individual signature verification does,
\* whether the aggregate verification passes or fails; no validator is added
\* for a new pubkey whose deposits all carry an invalid signature.
C16_BatchEqualsIndividual ==
  last.op = "ProcessDeposits" =>
    /\ bstate = last.individually.state
    /\ last.ok = last.individually.ok
    /\ \A k \in last.unsigned : k \notin PubkeysOf(last.pre) => k \notin PubkeysOf(bstate)
\* C16 witness: a valid top-up and a deposit for a new pubkey with an invalid
\* signature; the first is processed, the second skipped without error.
C16_Witness ==
  /\ last.op = "ProcessDeposits" /\ last.ok
  /\ last.pre = Genesis
  /\ last.n = 2
  /\ last.unsigned = {ToBytes48(SecondKey)}
  /\ Len(bstate.validators) = 1
  /\ bstate.balances[1] = MaxEffectiveBalance + EffectiveBalanceIncrement + 1
  /\ bstate.dindex = last.pre.dindex + 2

\* C18: every pubkey occurs at most once among the validators and the pubkey
\* map sends each pubkey to its position; a deposit for a pubkey already in
\* the map leaves its position alone and appends nothing for it; a pubkey
\* whose only deposits were skipped is in neither.
C18_PubkeysUniqueAndMapped ==
  /\ \A i, j \in 1..Len(bstate.validators) :
       i # j => ToBytes48(bstate.validators[i].pubkey) # ToBytes48(bstate.validators[j].pubkey)
  /\ bstate.valMap
       = {<<ToBytes48(bstate.validators[i].pubkey), i>> : i \in 1..Len(bstate.validators)}
  /\ last.op # "none" =>
       /\ \A k \in PubkeysOf(last.pre) : IndexOfKey(bstate, k) = IndexOfKey(last.pre, k)
       /\ PubkeysOf(bstate) \subseteq PubkeysOf(last.pre) \cup last.keys
       /\ \A k \in last.unsigned :
            k \notin PubkeysOf(last.pre)
              => (k \notin PubkeysOf(bstate) /\ ~ValidatorIndexByPubkey(bstate, k).ok)
\* C18 witness: two deposits for the same new pubkey in one call; the second
\* tops up the validator the first one appended.
C18_Witness ==
  /\ last.op = "ProcessDeposits" /\ last.ok
  /\ last.pre = Genesis
  /\ last.n = 2
  /\ last.keys = {ToBytes48(SecondKey)}
  /\ Len(bstate.validators) = 2
  /\ bstate.balances[2] > MaxEffectiveBalance

(***************************************************************************)
(* Chain info (blockchain/chain_info.go): the checkpoint accessors of the   *)
(* service.  Byte slices live in a heap of cells: a checkpoint is an epoch   *)
(* and the cell of its root.  Cell 1 is the ZeroHash array of the process-  *)
(* wide configuration that params.BeaconConfig() points to; slicing it      *)
(* (ZeroHash[:]) yields that cell, not a copy.  A service checkpoint also    *)
(* remembers the root bytes the service stored (stored), which no caller    *)
(* can touch.                                                               *)
(***************************************************************************)
MaxChainOps == 4

ZeroHashCell == 1
ZeroRootBytes == "zero"
RootBytes == {"zero", "root-a", "hello-world"}
NilCheckpt == [isNil |-> TRUE, epoch |-> 0, root |-> 0, stored |-> ZeroRootBytes]
CheckptNames == {"finalizedCheckpt", "justifiedCheckpt", "prevJustifiedCheckpt"}
Alloc(heap, bytes) == Append(heap, bytes)
\* stateV0.CopyCheckpoint: a new checkpoint whose root is a new slice with the same bytes.
CopyCheckpoint(heap, cp) ==
  [heap |-> Alloc(heap, heap[cp.root]),
   ret |-> [epoch |-> cp.epoch, root |-> Len(heap) + 1]]
\* &ethpb.Checkpoint{Root: params.BeaconConfig().ZeroHash[:]}
ZeroRootCheckpoint(heap) == [heap |-> heap, ret |-> [epoch |-> 0, root |-> ZeroHashCell]]
CheckptOf(svc, heap, name) ==
  IF svc[name].isNil THEN ZeroRootCheckpoint(heap) ELSE CopyCheckpoint(heap, svc[name])
FinalizedCheckpt(svc, heap) == CheckptOf(svc, heap, "finalizedCheckpt")
CurrentJustifiedCheckpt(svc, heap) == CheckptOf(svc, heap, "justifiedCheckpt")
PreviousJustifiedCheckpt(svc, heap) == CheckptOf(svc, heap, "prevJustifiedCheckpt")

(***************************************************************************)
(* SpecChain: callers read the three checkpoints and write into the roots   *)
(* of the checkpoints they were handed, while the service replaces its      *)
(* checkpoints.                                                             *)
(***************************************************************************)
ChainState(svc, heap, held) == [svc |-> svc, heap |-> heap, held |-> held]
ChainCall(op, name, ret, bytes, mutated) ==
  [op |-> op, name |-> name, ret |-> ret, bytes |-> bytes, mutated |-> mutated]
NoRet == [epoch |-> 0, root |-> 0]
InitChain ==
  /\ bstate = ChainState([n \in CheckptNames |-> NilCheckpt], <<ZeroRootBytes>>, {})
  /\ last = ChainCall("none", "none", NoRet, ZeroRootBytes, FALSE)
  /\ nops = 0
  /\ StfIdle
Accessed(name, r) ==
  /\ nops < MaxChainOps
  /\ bstate' = ChainState(bstate.svc, r.heap, bstate.held \cup {r.ret})
  /\ last' = ChainCall("read", name, r.ret, r.heap[r.ret.root], last.mutated)
  /\ nops' = nops + 1
  /\ UNCHANGED stfVars
OpFinalizedCheckpt == Accessed("finalizedCheckpt", FinalizedCheckpt(bstate.svc, bstate.heap))
OpCurrentJustifiedCheckpt ==
  Accessed("justifiedCheckpt", CurrentJustifiedCheckpt(bstate.svc, bstate.heap))
OpPreviousJustifiedCheckpt ==
  Accessed("prevJustifiedCheckpt", PreviousJustifiedCheckpt(bstate.svc, bstate.heap))
\* A caller writes bytes into the root of a checkpoint it was handed.
OpMutateReturned ==
  \E cp \in bstate.held, bytes \in RootBytes \ {ZeroRootBytes} :
    /\ nops < MaxChainOps
    /\ bstate.heap[cp.root] # bytes
    /\ bstate' = [bstate EXCEPT !.heap[cp.root] = bytes]
    /\ last' = ChainCall("mutate", "none", cp, bytes, TRUE)
    /\ nops' = nops + 1
    /\ UNCHANGED stfVars
\* The service stores a new checkpoint (a new root slice of its own).
OpStoreCheckpt ==
  \E name \in CheckptNames :
    /\ nops < MaxChainOps
    /\ bstate.svc[name].isNil
    /\ bstate' = [bstate EXCEPT
                    !.heap = Alloc(@, "root-a"),
                    !.svc[name] = [isNil |-> FALSE, epoch |-> 1,
                                   root |-> Len(bstate.heap) + 1, stored |-> "root-a"]]
    /\ last' = ChainCall("store", name, NoRet, "root-a", last.mutated)
    /\ nops' = nops + 1
    /\ UNCHANGED stfVars
NextChain ==
  \/ OpFinalizedCheckpt
  \/ OpCurrentJustifiedCheckpt
  \/ OpPreviousJustifiedCheckpt
  \/ OpMutateReturned
  \/ OpStoreCheckpt
SpecChain == InitChain /\ [][NextChain]_vars

ServiceCells == {bstate.svc[n].root : n \in {m \in CheckptNames : ~bstate.svc[m].isNil}}
\* C19: whatever callers wrote into the checkpoints they were handed, a
\* checkpoint returned by FinalizedCheckpt, CurrentJustifiedCheckpt or
\* PreviousJustifiedCheckpt shares no storage with the service and carries
\* the epoch and root the service stored, or the zero root when the service
\* holds no checkpoint.
C19_ReturnedCheckpointsAreCopies ==
  last.op = "read" =>
    /\ last.ret.root \notin ServiceCells
    /\ last.bytes = bstate.svc[last.name].stored
    /\ last.ret.epoch = bstate.svc[last.name].epoch
\* The state C19 excludes: the service holds no checkpoint, a caller wrote
\* into the root it was handed, and a later call returns those bytes.
C19_Witness ==
  /\ last.op = "read" /\ last.mutated
  /\ bstate.svc[last.name].isNil
  /\ last.ret.root = ZeroHashCell
  /\ last.bytes = "hello-world"
\* A checkpoint the service has set is returned as a copy with the stored
\* bytes, whatever callers did to earlier copies.
SetCheckpointsAreCopies ==
  (last.op = "read" /\ ~bstate.svc[last.name].isNil) =>
    /\ last.ret.root \notin ServiceCells \cup {ZeroHashCell}
    /\ last.bytes = bstate.svc[last.name].stored
    /\ last.ret.epoch = bstate.svc[last.name].epoch

(***************************************************************************)
(* ProcessSlots under a fair scheduler, with failing slot processing.      *)
(* A task that is running keeps running: the steps ProcessSlots takes by   *)
(* itself (the reads of the cache, the loop, the deferred release) are     *)
(* weakly fair. Cancellation and processing errors come from the           *)
(* environment and are not.                                                *)
(***************************************************************************)
\* lines 375-391: ProcessSlot, ProcessEpochPrecompute or SetSlot returns an
\* error; the call returns it, running the deferred release on the way.
ProcessingError(p) ==
  /\ procs[p].pc = "loop"
  /\ LoopContinues(procs[p].state, procs[p].slot)
  /\ ~procs[p].cancelled
  /\ procs' = [procs EXCEPT ![p].pc = "unmark", ![p].ok = FALSE]
  /\ UNCHANGED <<cache, inProgress, ncalls, opsVars>>

MaxLiveCalls == 2
MaxLiveSlot == 2

NextLive ==
  \E p \in Procs :
    \/ \E s \in StartStates, slot \in 0..MaxLiveSlot :
         ncalls < MaxLiveCalls /\ CallProcessSlots(p, s, slot)
    \/ Get1(p)
    \/ MarkInProgress(p)
    \/ Get2(p)
    \/ LoopStep(p)
    \/ LoopExit(p)
    \/ ProcessingError(p)
    \/ MarkNotInProgress(p)
    \/ Cancel(p)
    \/ Return(p)

\* The steps a running call takes by itself.
Runs(p) ==
  \/ Get1(p)
  \/ MarkInProgress(p)
  \/ Get2(p)
  \/ LoopStep(p)
  \/ LoopExit(p)
  \/ MarkNotInProgress(p)

SpecLive == Init /\ [][NextLive]_vars /\ \A p \in Procs : WF_vars(Runs(p))

\* The call of task p holds the key it marked.
HoldsKey(p) == procs[p].marked /\ procs[p].pc \in {"loop", "unmark"}
\* No call is under way.
AllReturned == \A p \in Procs : procs[p].pc \in {"idle", "done"}
\* The step in which the call of task p returns.
Returns(p) == procs[p].pc # "done" /\ procs'[p].pc = "done"
\* A call that marked its key returns only through the release of the key.
ReleasesBeforeReturn ==
  \A p \in Procs :
    (procs[p].marked /\ Returns(p)) =>
      (procs[p].pc = "unmark" /\ procs[p].key \notin inProgress')

\* C20: a ProcessSlots call that marked its key in progress returns only
\* after marking it not in progress, whether it succeeds, fails in slot
\* processing or is cancelled, and it does return; when no call is under
\* way, no key is in progress.
C20_MarkedKeyReleasedOnEveryExit ==
  /\ [][ReleasesBeforeReturn]_vars
  /\ [](AllReturned => inProgress = {})
  /\ \A p \in Procs : HoldsKey(p) ~> (procs[p].pc = "done" /\ procs[p].key \notin inProgress)
\* Task 1 marked the key and failed in slot processing, task 2 marked it
\* afterwards and was cancelled in the loop; both have returned.
C20_Witness ==
  /\ procs[1].pc = "done" /\ procs[1].marked /\ ~procs[1].ok /\ ~procs[1].cancelled
  /\ procs[2].pc = "done" /\ procs[2].marked /\ ~procs[2].ok /\ procs[2].cancelled
  /\ inProgress = {}

(***************************************************************************)
(* ProcessSlots called on different starting states and target slots.      *)
(* Two tasks call ProcessSlots on the genesis state or on the genesis      *)
(* state advanced by one slot, with any target slot.                       *)
(***************************************************************************)
MaxKeyCalls == 2
MaxKeySlot == 3
KeyStartStates == {Genesis, SlotIteration(Genesis)}

NextKeys ==
  \E p \in Procs :
    \/ \E s \in KeyStartStates, slot \in 0..MaxKeySlot :
         ncalls < MaxKeyCalls /\ CallProcessSlots(p, s, slot)
    \/ Get1(p)
    \/ MarkInProgress(p)
    \/ Get2(p)
    \/ LoopStep(p)
    \/ LoopExit(p)
    \/ MarkNotInProgress(p)
    \/ Cancel(p)
    \/ Return(p)

SpecKeys == Init /\ [][NextKeys]_vars

\* The call of task p has computed its key and has not returned.
Running(p) == procs[p].pc \in {"get1", "mark", "get2", "loop", "unmark"}
\* The slot the call of task p started to advance from: the slot of the state
\* it was given, or of the cached state it adopted.
HighWater(p) == IF procs[p].adopted THEN procs[p].highestSlot ELSE procs[p].input.slot
\* The step in which the call of task p, cancelled, comes to a loop iteration.
CancelObserved(p) ==
  /\ procs[p].pc = "loop" /\ procs[p].cancelled
  /\ procs[p].state.slot < procs[p].slot
  /\ procs'[p] # procs[p]
\* The cache after storing state s under key k.
StoredUnder(c, k, s) ==
  /\ CacheHas(cache', k) /\ CacheGet(cache', k) = s
  /\ \A e \in c : e.key # k => e \in cache'
  /\ \A e \in cache' : e.key # k => e \in c

\* C21: a cancelled ProcessSlots call stops at the next loop iteration and
\* returns the error without advancing further; on the way it stores its
\* state under the key exactly when the state's slot is above the slot it
\* started from (that of the input state or of the adopted cached state).
C21_CancellationStoresPartialProgress ==
  [][\A p \in Procs :
       CancelObserved(p) =>
         /\ procs'[p].pc = "unmark" /\ ~procs'[p].ok
         /\ procs'[p].state = procs[p].state
         /\ procs[p].highestSlot = HighWater(p)
         /\ IF procs[p].state.slot > HighWater(p)
              THEN StoredUnder(cache, procs[p].key, procs[p].state)
              ELSE cache' = cache]_vars
\* A cancelled call has stored a state it advanced past its starting slot but
\* not to the target.
C21_Witness ==
  \E p \in Procs :
    /\ procs[p].pc = "unmark" /\ procs[p].cancelled /\ ~procs[p].ok
    /\ procs[p].state.slot > HighWater(p)
    /\ procs[p].state.slot < procs[p].slot
    /\ CacheHas(cache, procs[p].key) /\ CacheGet(cache, procs[p].key) = procs[p].state

\* C22 (as the code has it): the key is a digest of the starting state alone.
\* Two calls have the same key exactly when their starting states have the
\* same root, whatever their target slots; a call adopts an entry under its
\* key only when the entry lies before its own target.
C22_KeyIsDigestOfStartingState ==
  /\ \A p, q \in Procs :
       (Running(p) /\ Running(q)) =>
         ((procs[p].key = procs[q].key) <=>
            (HashTreeRoot(procs[p].input) = HashTreeRoot(procs[q].input)))
  /\ \A p \in Procs : procs[p].adopted => procs[p].highestSlot < procs[p].slot
\* C22 (as stated): two calls on the same starting state with different
\* target slots use different keys.
C22_KeyDependsOnTargetSlot ==
  \A p, q \in Procs :
    (/\ Running(p) /\ Running(q)
     /\ procs[p].input = procs[q].input
     /\ procs[p].slot # procs[q].slot) => procs[p].key # procs[q].key
\* Task 1 advances the genesis state to slot 3 and holds the key; task 2,
\* called on the genesis state for slot 2, found the key in progress and waits.
C22_Witness ==
  /\ procs[1].pc = "loop" /\ procs[1].marked /\ procs[1].slot = 3
  /\ procs[2].pc = "get2" /\ procs[2].slot = 2
  /\ procs[1].input = procs[2].input
  /\ procs[2].key \in inProgress

\* C23: a state read from the cache replaces the working state only when it
\* is further along than the input state and not past the target; the
\* working state never lies before the input state.
C23_AdoptsOnlyFurtherAlongState ==
  \A p \in Procs :
    /\ procs[p].adopted =>
         /\ procs[p].highestSlot > procs[p].input.slot
         /\ procs[p].highestSlot <= procs[p].slot
    /\ procs[p].state.slot >= procs[p].input.slot
\* A call on the genesis state advanced by one slot has adopted a cached
\* state and works on it.
C23_Witness ==
  \E p \in Procs :
    /\ procs[p].pc = "loop" /\ procs[p].adopted
    /\ procs[p].input.slot = 1
    /\ procs[p].state.slot = procs[p].highestSlot

(***************************************************************************)
(* The block pipeline specification: ProcessBlock and its variants applied *)
(* to blocks with any two faults, with and without a cancelled context.    *)
(***************************************************************************)
\* The faults of the operations whose signature is invalid.
SignatureFaults ==
  {"header", "randao", "attestation_sigs", "proposer_slashing_sigs",
   "attester_slashing_sigs", "voluntary_exit_sigs"}
\* The faults of operations invalid otherwise, and of operation lists too long.
OtherFaults ==
  {"proposer_slashings", "attester_slashings", "attestations", "voluntary_exits",
   "long_ps", "long_as", "long_att", "long_ex"}
FaultSets == {f \in SUBSET (SignatureFaults \cup OtherFaults) : Cardinality(f) <= 2}

\* The length of an operation list: above the maximum when the list is too
\* long, one when the fault lies in one of its operations.
LensOf(long, max, kinds, faults) ==
  IF long \in faults THEN max + 1 ELSE IF kinds \cap faults # {} THEN 1 ELSE 0

MkPipelineBody(vote, deps, faults) ==
  [eth1vote |-> vote,
   deposits |-> deps,
   lens |-> [ps |-> LensOf("long_ps", MaxProposerSlashings,
                            {"proposer_slashings", "proposer_slashing_sigs"}, faults),
             as |-> LensOf("long_as", MaxAttesterSlashings,
                            {"attester_slashings", "attester_slashing_sigs"}, faults),
             att |-> LensOf("long_att", MaxAttestations,
                             {"attestations", "attestation_sigs"}, faults),
             ex |-> LensOf("long_ex", MaxVoluntaryExits,
                            {"voluntary_exits", "voluntary_exit_sigs"}, faults)],
   bad |-> faults \ {"long_ps", "long_as", "long_att", "long_ex"}]

MkPipelineBlock(s, vote, choices, faults) ==
  [isNil |-> FALSE, slot |-> s.slot, parent |-> HeaderRoot(s.lbh), stateRoot |-> ZeroHash,
   body |-> MkPipelineBody(vote, MkDeposits(s.dindex, choices), faults)]

\* The blocks offered to a state, and whether the context is cancelled.
PipelineInputs(s) ==
  {[blk |-> MkPipelineBlock(s, vote, cs, faults), cancelled |-> cancelled] :
     vote \in 0..(MaxCount + 1),
     cs \in ListsOver(BlockDepositChoices),
     faults \in FaultSets,
     cancelled \in BOOLEAN}
\* Faults come with at most one deposit, a cancelled context with none.
PipelineInputOK(in) ==
  /\ in.blk.body.bad # {} => Len(in.blk.body.deposits) <= 1
  /\ in.cancelled => in.blk.body.bad = {}

\* The inputs of the variants of ProcessBlock: at most one deposit.
PipelineSigInputs(s) ==
  {[blk |-> MkPipelineBlock(s, vote, cs, faults), cancelled |-> FALSE] :
     vote \in 1..2,
     cs \in {l \in ListsOver(BlockDepositChoices) : Len(l) <= 1},
     faults \in FaultSets}

\* The record of a call. With it are kept the outcomes of the same call on
\* the blocks that differ from the block in the validity of signatures only
\* (twins), of ProcessBlock on the same block (full), and the signature set
\* returned (set).
PipelineCall(op, pre, in, r, trace, twins, full, set) ==
  [op |-> op, ok |-> r.ok, pre |-> pre, n |-> Len(in.blk.body.deposits),
   blk |-> in.blk, cancelled |-> in.cancelled, trace |-> trace,
   twins |-> twins, full |-> full, set |-> set]
\* The block with the signatures named made valid.
WithValid(blk, sigs) == [blk EXCEPT !.body.bad = @ \ sigs]
\* The signatures of the block itself, of the randao reveal and of the attestations.
DeferredSignatures == {"header", "randao", "attestation_sigs"}
\* The outcome of a call, leaving aside the body root the header records
\* (the signatures are part of the body).
Outcome(r) == [ok |-> r.ok, state |-> IF r.ok THEN [r.state EXCEPT !.lbh.body = ZeroHash] ELSE <<>>]
NoTwins == [deferred |-> Outcome(Res(TRUE, Genesis)), all |-> Outcome(Res(TRUE, Genesis))]

InitPipeline ==
  /\ bstate = Genesis
  /\ last = PipelineCall("none", Genesis,
                         [blk |-> MkPipelineBlock(Genesis, 0, <<>>, {}), cancelled |-> FALSE],
                         Res(TRUE, Genesis), <<>>, NoTwins, Outcome(Res(TRUE, Genesis)), <<>>)
  /\ nops = 0
  /\ StfIdle

OpPipelineSlots ==
  \E slot \in 1..MaxSlot :
    /\ nops = 0
    /\ bstate.slot < slot
    /\ bstate' = AdvanceSlots(bstate, slot)
    /\ UNCHANGED <<last, nops, stfVars>>

\* One block is applied to a state, after any number of slots.
OpPipelineProcessBlock ==
  /\ nops = 0
  /\ \E in \in PipelineInputs(bstate) :
    /\ PipelineInputOK(in)
    /\ bstate' = ProcessBlock(bstate, in.blk, in.cancelled).state
    /\ last' = PipelineCall("ProcessBlock", bstate, in,
                            ProcessBlock(bstate, in.blk, in.cancelled),
                            ProcessorTrace(processingPipeline, 1, bstate, in.blk, in.cancelled),
                            NoTwins, Outcome(ProcessBlock(bstate, in.blk, in.cancelled)), <<>>)
    /\ nops' = nops + 1
    /\ UNCHANGED stfVars

OpPipelineProcessBlockForStateRoot ==
  /\ nops = 0
  /\ \E in \in PipelineSigInputs(bstate) :
    /\ bstate' = ProcessBlockForStateRoot(bstate, in.blk, FALSE).state
    /\ last' = PipelineCall("ProcessBlockForStateRoot", bstate, in,
                            ProcessBlockForStateRoot(bstate, in.blk, FALSE), <<>>,
                            [deferred |-> Outcome(ProcessBlockForStateRoot(
                                            bstate, WithValid(in.blk, DeferredSignatures), FALSE)),
                             all |-> Outcome(ProcessBlockForStateRoot(
                                       bstate, WithValid(in.blk, SignatureFaults), FALSE))],
                            Outcome(ProcessBlock(bstate, in.blk, FALSE)), <<>>)
    /\ nops' = nops + 1
    /\ UNCHANGED stfVars

OpPipelineProcessBlockNoVerifyAnySig ==
  /\ nops = 0
  /\ \E in \in PipelineSigInputs(bstate) :
    /\ bstate' = ProcessBlockNoVerifyAnySig(bstate, in.blk, FALSE).state
    /\ last' = PipelineCall("ProcessBlockNoVerifyAnySig", bstate, in,
                            ProcessBlockNoVerifyAnySig(bstate, in.blk, FALSE), <<>>,
                            [deferred |-> Outcome(ProcessBlockNoVerifyAnySig(
                                            bstate, WithValid(in.blk, DeferredSignatures), FALSE)),
                             all |-> Outcome(ProcessBlockNoVerifyAnySig(
                                       bstate, WithValid(in.blk, SignatureFaults), FALSE))],
                            Outcome(ProcessBlock(bstate, in.blk, FALSE)),
                            SignatureSetNoVerifyAnySig(bstate, in.blk, FALSE))
    /\ nops' = nops + 1
    /\ UNCHANGED stfVars

NextPipeline ==
  \/ OpPipelineSlots
  \/ OpPipelineProcessBlock
  \/ OpPipelineProcessBlockForStateRoot
  \/ OpPipelineProcessBlockNoVerifyAnySig

SpecPipeline == InitPipeline /\ [][NextPipeline]_vars

\* The order of the processors.
BlockProcessorOrder ==
  <<"ProcessBlockHeader", "ProcessRandao", "ProcessEth1DataInBlock",
    "VerifyOperationLengths", "ProcessProposerSlashings", "ProcessAttesterSlashings",
    "ProcessAttestations", "ProcessDeposits", "ProcessVoluntaryExits">>
TraceNames(trace) == [i \in 1..Len(trace) |-> trace[i].name]

\* C24: ProcessBlock applies the processors in the order block header, randao,
\* eth1 data, operation lengths, proposer slashings, attester slashings,
\* attestations, deposits, voluntary exits, each to the state the previous
\* one returned; it stops at the first that fails, returning the error, and
\* otherwise returns the state the last one returned.
C24_ProcessorsInOrder ==
  last.op = "ProcessBlock" =>
    /\ Len(last.trace) \in 1..Len(BlockProcessorOrder)
    /\ TraceNames(last.trace) = SubSeq(BlockProcessorOrder, 1, Len(last.trace))
    /\ last.trace[1].pre = last.pre
    /\ \A i \in 2..Len(last.trace) :
         last.trace[i - 1].ok /\ last.trace[i].pre = last.trace[i - 1].post
    /\ last.ok <=> (Len(last.trace) = Len(BlockProcessorOrder)
                    /\ last.trace[Len(last.trace)].ok)
    /\ ~last.ok => ~last.trace[Len(last.trace)].ok
    /\ last.ok => bstate = last.trace[Len(last.trace)].post
\* A block with a deposit, an invalid attestation and an invalid exit: the
\* attestations fail, deposits and exits are not applied.
C24_Witness ==
  /\ last.op = "ProcessBlock" /\ ~last.ok
  /\ Len(last.trace) = 7
  /\ last.n = 1
  /\ {"attestations", "voluntary_exits"} \subseteq last.blk.body.bad

\* The entries of the observed processors that are VerifyOperationLengths.
LengthChecks == {i \in 1..Len(last.trace) : last.trace[i].name = "VerifyOperationLengths"}
\* What the block must satisfy on state s.
LengthsAcceptable(s, body) ==
  /\ body.lens.ps <= MaxProposerSlashings
  /\ body.lens.as <= MaxAttesterSlashings
  /\ body.lens.att <= MaxAttestations
  /\ body.lens.ex <= MaxVoluntaryExits
  /\ s.dindex <= s.eth1
  /\ \/ s.eth1 - s.dindex >= MaxDeposits /\ Len(body.deposits) = MaxDeposits
     \/ s.eth1 - s.dindex < MaxDeposits /\ Len(body.deposits) = s.eth1 - s.dindex

\* C25: VerifyOperationLengths accepts a block exactly when no operation list
\* is longer than its maximum, the deposit index is at most the deposit
\* count, and the block holds exactly min(MAX_DEPOSITS, count - index)
\* deposits; it returns the state as it was given.
C25_OperationLengthsAcceptedIff ==
  \A i \in LengthChecks :
    /\ last.trace[i].ok <=> LengthsAcceptable(last.trace[i].pre, last.blk.body)
    /\ last.trace[i].post = last.trace[i].pre
\* Two deposits are outstanding and the block, otherwise in order, holds one.
C25_Witness ==
  \E i \in LengthChecks :
    /\ ~last.trace[i].ok
    /\ last.trace[i].pre.eth1 - last.trace[i].pre.dindex = 2
    /\ Len(last.blk.body.deposits) = 1
    /\ last.blk.body.lens = [ps |-> 0, as |-> 0, att |-> 0, ex |-> 0]

(***************************************************************************)
(* The deposit branch specification: ProcessDeposit applied to deposits    *)
(* that carry a branch of the deposit tree, on states whose eth1 data was  *)
(* replaced by a vote.                                                     *)
(***************************************************************************)
\* Positions of the contract for which deposits are offered.
Positions == 0..MaxCount

\* The branches offered with the deposit of position pos: the branch of a
\* position in the tree of some count, whole, without the length on top, or
\* with a node too many.
Branches ==
  {DepositProof(pos, count) : pos \in Positions, count \in 0..(MaxCount + 1)}
  \cup {SubSeq(DepositProof(pos, count), 1, DepositContractTreeDepth) :
          pos \in Positions, count \in 1..(MaxCount + 1)}
  \cup {Append(DepositProof(pos, pos + 1), LengthMixin(pos + 1)) : pos \in Positions}

BranchDeposit(pos, proof, isNil) ==
  [pubkey |-> ContractDeposit(pos).pubkey, amount |-> ContractDeposit(pos).amount,
   sigValid |-> ContractDeposit(pos).sigValid, proof |-> proof, isNil |-> isNil]

BranchCall(op, pre, d, r) == [op |-> op, ok |-> r.ok, pre |-> pre, n |-> 1, deposit |-> d]

InitBranch ==
  /\ bstate = Genesis
  /\ last = BranchCall("none", Genesis, BranchDeposit(0, <<>>, TRUE), Res(TRUE, Genesis))
  /\ nops = 0
  /\ StfIdle

\* A vote replaces the eth1 data of the state (the voting period is one slot).
OpBranchEth1Data ==
  \E vote \in 0..(MaxCount + 1) :
    /\ nops = 0
    /\ last.op = "none"
    /\ bstate' = ProcessEth1DataInBlock(bstate, [body |-> [eth1vote |-> vote]]).state
    /\ last' = [last EXCEPT !.op = "ProcessEth1DataInBlock"]
    /\ UNCHANGED <<nops, stfVars>>

OpBranchProcessDeposit ==
  /\ nops < MaxOps
  /\ nops = 0 \/ last.ok
  /\ \E pos \in Positions, proof \in Branches, isNil \in BOOLEAN, verifySignature \in BOOLEAN :
       /\ bstate' = ProcessDeposit(bstate, BranchDeposit(pos, proof, isNil), verifySignature).state
       /\ last' = BranchCall("ProcessDeposit", bstate, BranchDeposit(pos, proof, isNil),
                             ProcessDeposit(bstate, BranchDeposit(pos, proof, isNil),
                                            verifySignature))
       /\ nops' = nops + 1
       /\ UNCHANGED stfVars

NextBranch ==
  \/ OpBranchEth1Data
  \/ OpBranchProcessDeposit

SpecBranch == InitBranch /\ [][NextBranch]_vars

\* The deposit is the one the contract holds at the state's deposit index,
\* with the branch of that position, DEPOSIT_CONTRACT_TREE_DEPTH + 1 nodes
\* long, in the tree the state's deposit root stands for.
BranchExpected(s, d) ==
  /\ ~d.isNil
  /\ s.dindex < s.eth1
  /\ DepositDataRoot(d) = DepositDataRoot(ContractDeposit(s.dindex))
  /\ Len(d.proof) = DepositContractTreeDepth + 1
  /\ d.proof = DepositProof(s.dindex, s.eth1)

\* C26: ProcessDeposit goes on exactly when the deposit's branch, of
\* DEPOSIT_CONTRACT_TREE_DEPTH + 1 nodes, verifies against the deposit root
\* at the position of the deposit index; otherwise (also for a nil deposit)
\* it fails and leaves the deposit index, the validators and the balances as
\* they were.
C26_BranchVerifiedBeforeMutation ==
  last.op = "ProcessDeposit" =>
    /\ last.ok <=> BranchExpected(last.pre, last.deposit)
    /\ ~last.ok => bstate = last.pre
    /\ last.ok => bstate.dindex = last.pre.dindex + 1
\* A deposit with the branch of its position cut short of the length on top
\* is refused and the state is as before.
C26_Witness ==
  /\ last.op = "ProcessDeposit" /\ ~last.ok /\ ~last.deposit.isNil
  /\ last.pre.dindex < last.pre.eth1
  /\ last.deposit.proof =
       SubSeq(DepositProof(last.pre.dindex, last.pre.eth1), 1, DepositContractTreeDepth)
  /\ DepositDataRoot(last.deposit) = DepositDataRoot(ContractDeposit(last.pre.dindex))
  /\ bstate = last.pre

\* The outcome of the call made, as Outcome gives it.
LastOutcome == Outcome([ok |-> last.ok, state |-> bstate])

ExpectedSignatureSet(blk) ==
  [i \in 1..(2 + blk.body.lens.att) |->
     IF i = 1 THEN [kind |-> "block", valid |-> "header" \notin blk.body.bad]
     ELSE IF i = 2 THEN [kind |-> "randao", valid |-> "randao" \notin blk.body.bad]
     ELSE [kind |-> "attestation", valid |-> "attestation_sigs" \notin blk.body.bad]]

\* C28: ProcessBlockNoVerifyAnySig has the same outcome when the signatures
\* of the block, the randao reveal and the attestations are made valid; when
\* it succeeds it returns the signature sets of the block, the randao reveal
\* and the attestations joined in this order; for a block ProcessBlock
\* accepts it succeeds with the state ProcessBlock returns.
C28_NoVerifyAnySigDefersSignatures ==
  last.op = "ProcessBlockNoVerifyAnySig" =>
    /\ LastOutcome = last.twins.deferred
    /\ last.ok => last.set = ExpectedSignatureSet(last.blk)
    /\ last.full.ok => LastOutcome = last.full
\* A block with an attestation whose signature is invalid, in order
\* otherwise: it is processed, and the set returned holds the invalid
\* signature last.
C28_Witness ==
  /\ last.op = "ProcessBlockNoVerifyAnySig" /\ last.ok
  /\ last.blk.body.bad = {"attestation_sigs"}
  /\ Len(last.set) = 3 /\ ~last.set[3].valid
  /\ ~last.full.ok

\* The entries of the observed processors that are ProcessDeposits.
DepositRuns == {i \in 1..Len(last.trace) : last.trace[i].name = "ProcessDeposits"}

\* C29: with the context cancelled, ProcessBlock returns an error, and
\* ProcessDeposits, whose batch verification observes the cancellation,
\* returns an error without processing the deposits.
C29_CancellationAbortsBlock ==
  (last.op = "ProcessBlock" /\ last.cancelled) =>
    /\ ~last.ok
    /\ \A i \in DepositRuns : last.n > 0 => ~last.trace[i].ok
\* The state C29 excludes: the context is cancelled, the block holds a
\* deposit, every processor is applied and the deposit is processed.
C29_Witness ==
  /\ last.op = "ProcessBlock" /\ last.cancelled /\ last.ok
  /\ last.n = 1
  /\ Len(last.trace) = Len(BlockProcessorOrder)
  /\ bstate.dindex = last.pre.dindex + 1

(***************************************************************************)
(* The committee cache over the epochs: UpdateCommitteeCache is called for *)
(* the current epoch, at any time and any number of times, as the epochs   *)
(* go by.                                                                  *)
(***************************************************************************)
EpochCacheCall(op, epoch, pre) == [op |-> op, epoch |-> epoch, pre |-> pre, ok |-> TRUE]

InitEpochCache ==
  /\ \E active \in ActiveLists, seed \in Seeds :
       bstate = [active |-> active, seed |-> seed, epoch |-> 0, cache |-> {}]
  /\ last = EpochCacheCall("none", 0, {})
  /\ nops = 0
  /\ StfIdle

OpEpochUpdateCommitteeCache ==
  /\ bstate' = [bstate EXCEPT !.cache = UpdateCommitteeCache(@, bstate, bstate.epoch)]
  /\ last' = EpochCacheCall("UpdateCommitteeCache", bstate.epoch, bstate.cache)
  /\ UNCHANGED <<nops, stfVars>>

\* The state enters the next epoch.
OpNextEpoch ==
  /\ bstate.epoch < MaxEpoch
  /\ bstate' = [bstate EXCEPT !.epoch = @ + 1, !.seed = Seed(bstate, bstate.epoch + 1)]
  /\ last' = EpochCacheCall("NextEpoch", bstate.epoch, bstate.cache)
  /\ UNCHANGED <<nops, stfVars>>

NextEpochCache ==
  \/ OpEpochUpdateCommitteeCache
  \/ OpNextEpoch

SpecEpochCache == InitEpochCache /\ [][NextEpochCache]_vars

\* C30: after UpdateCommitteeCache(state, e) the cache holds an entry for the
\* attester seed of e and one for that of e + 1, whatever it held before,
\* and the entries it held before are as they were.
C30_BothEpochsCached ==
  last.op = "UpdateCommitteeCache" =>
    /\ CommitteeCacheHas(bstate.cache, Seed(bstate, last.epoch))
    /\ CommitteeCacheHas(bstate.cache, Seed(bstate, last.epoch + 1))
    /\ last.pre \subseteq bstate.cache
\* The state C30 excludes: the cache held the entry of epoch e and not that
\* of e + 1 when UpdateCommitteeCache(state, e) was called, and it still
\* lacks the entry of e + 1.
C30_Witness ==
  /\ last.op = "UpdateCommitteeCache"
  /\ CommitteeCacheHas(last.pre, Seed(bstate, last.epoch))
  /\ ~CommitteeCacheHas(last.pre, Seed(bstate, last.epoch + 1))
  /\ ~CommitteeCacheHas(bstate.cache, Seed(bstate, last.epoch + 1))
\* UpdateCommitteeCache keeps every entry the cache held, and one seed has one
\* entry.
ExistingEntriesKept ==
  /\ last.op = "UpdateCommitteeCache" => last.pre \subseteq bstate.cache
  /\ \A e1, e2 \in bstate.cache : e1.seed = e2.seed => e1 = e2

(***************************************************************************)
(* Proposer indices cache and committee assignments (committee.go).  The   *)
(* state is a record of the slot, the active validator indices, the randao *)
(* mix the proposer seed is derived from and the state roots recorded for  *)
(* the slots gone by; the buffer of state roots of the configurations is   *)
(* longer than two epochs, so that the root of a slot of the last two      *)
(* epochs is the one recorded for it.                                      *)
(***************************************************************************)
GenesisEpoch == 0
MinSeedLookahead == 1
MaxAssignSlot == 7

StartSlot(epoch) == epoch * SlotsPerEpoch
EndSlot(epoch) == StartSlot(epoch + 1) - 1
NextEpoch(s) == CurrentEpoch(s) + 1
SetSlot(s, slot) == [s EXCEPT !.slot = slot]
\* helpers.StateRootAtSlot: the slot has to be behind the state's.
StateRootAtSlot(s, slot) ==
  IF slot >= s.slot THEN [ok |-> FALSE, root |-> ZeroHash]
  ELSE [ok |-> TRUE, root |-> s.roots[slot]]
\* Seed(state, e, DomainBeaconProposer)
ProposerSeed(s, e) == <<"proposer", s.mix, e>>
\* hashFunc(seed ++ Bytes8(slot)), as the number the proposer is drawn by.
SeedWithSlotHash(seed, slot) == seed[2] + 3 * seed[3] + slot
ComputeProposerIndex(activeIndices, h) ==
  IF Len(activeIndices) = 0 THEN [ok |-> FALSE, index |-> 0]
  ELSE [ok |-> TRUE, index |-> activeIndices[(h % Len(activeIndices)) + 1]]
ActiveValidatorIndices(s, epoch) == s.active
\* The proposer of the slot the state is at.
BeaconProposerIndex(s) ==
  ComputeProposerIndex(ActiveValidatorIndices(s, CurrentEpoch(s)),
                       SeedWithSlotHash(ProposerSeed(s, CurrentEpoch(s)), s.slot))

\* lines 389-413
precomputeProposerIndices(s, activeIndices) ==
  LET e == CurrentEpoch(s)
      seed == ProposerSeed(s, e)
      slot == StartSlot(e)
      at(i) == ComputeProposerIndex(activeIndices, SeedWithSlotHash(seed, slot + i))
  IN IF \E i \in 0..(SlotsPerEpoch - 1) : ~at(i).ok
       THEN [ok |-> FALSE, indices |-> <<>>]
       ELSE [ok |-> TRUE, indices |-> [i \in 1..SlotsPerEpoch |-> at(i - 1).index]]

HasProposerIndices(pc, root) == \E e \in pc : e.root = root
AddProposerIndices(pc, entry) == pc \cup {entry}

\* Faulty variant: the epoch before the current one, without the lookahead.
WantedEpoch_noLookahead(s) == CurrentEpoch(s) - 1
\* lines 342-345
WantedEpoch(s) ==
  IF CurrentEpoch(s) - 1 >= MinSeedLookahead
    THEN CurrentEpoch(s) - 1 - MinSeedLookahead
    ELSE CurrentEpoch(s) - 1

ProposerRes(ok, pc) == [ok |-> ok, pcache |-> pc]
\* lines 334-379
UpdateProposerIndicesInCache(pc, s) ==
  IF CurrentEpoch(s) <= GenesisEpoch + MinSeedLookahead THEN ProposerRes(TRUE, pc)
  ELSE LET r == StateRootAtSlot(s, EndSlot(WantedEpoch(s)))
           proposerIndices ==
             precomputeProposerIndices(s, ActiveValidatorIndices(s, CurrentEpoch(s)))
       IN IF ~r.ok THEN ProposerRes(FALSE, pc)
          ELSE IF r.root = ZeroHash THEN ProposerRes(TRUE, pc)
          ELSE IF HasProposerIndices(pc, r.root) THEN ProposerRes(TRUE, pc)
          ELSE IF ~proposerIndices.ok THEN ProposerRes(FALSE, pc)
          ELSE ProposerRes(TRUE,
                 AddProposerIndices(pc, [root |-> r.root,
                                         indices |-> proposerIndices.indices]))

\* lines 192-205: the loop over the slots of the epoch, the state being set to
\* each of them; slots is proposerIndexToSlots as the list of the pairs added.
RECURSIVE AssignProposers(_, _, _, _)
AssignProposers(s, slot, end, slots) ==
  IF slot >= end THEN [ok |-> TRUE, state |-> s, slots |-> slots]
  ELSE IF slot = 0 THEN AssignProposers(s, slot + 1, end, slots)
  ELSE LET s1 == SetSlot(s, slot)
           i == BeaconProposerIndex(s1)
       IN IF ~i.ok THEN [ok |-> FALSE, state |-> s1, slots |-> slots]
          ELSE AssignProposers(s1, slot + 1, end, Append(slots, <<i.index, slot>>))
\* Faulty variant: the proposers are computed on a copy of the state.
ProposerSlots_onCopy(s, epoch) ==
  [AssignProposers(s, StartSlot(epoch), StartSlot(epoch) + SlotsPerEpoch, <<>>)
     EXCEPT !.state = s]
ProposerSlots(s, epoch) ==
  AssignProposers(s, StartSlot(epoch), StartSlot(epoch) + SlotsPerEpoch, <<>>)

\* lines 217-235: the committees of the slots of the epoch, in the order they
\* are computed.
CommitteeContainers(s, epoch) ==
  LET n == SlotCommitteeCount(Len(ActiveValidatorIndices(s, epoch)))
  IN [k \in 1..(SlotsPerEpoch * n) |->
        LET slot == StartSlot(epoch) + ((k - 1) \div n)
            j == (k - 1) % n
            c == BeaconCommitteeFromState(s, slot, j)
        IN [ok |-> c.ok, committee |-> c.committee, index |-> j, slot |-> slot]]
\* validatorIndexToCommittee: the last container computed that holds the
\* validator.
AssignmentOf(containers, v) ==
  LET holds == {k \in DOMAIN containers :
                  \E m \in DOMAIN containers[k].committee : containers[k].committee[m] = v}
  IN IF holds = {} THEN <<>>
     ELSE containers[CHOOSE k \in holds : \A k2 \in holds : k2 <= k]
AssignRes(ok, s, slots, assignments) ==
  [ok |-> ok, state |-> s, slots |-> slots, assignments |-> assignments]
\* lines 169-238
CommitteeAssignments(s, epoch) ==
  IF epoch > NextEpoch(s) THEN AssignRes(FALSE, s, <<>>, <<>>)
  ELSE LET p == IF epoch < NextEpoch(s) THEN ProposerSlots(s, epoch)
                ELSE [ok |-> TRUE, state |-> s, slots |-> <<>>]
           containers == CommitteeContainers(p.state, epoch)
       IN IF ~p.ok THEN AssignRes(FALSE, p.state, <<>>, <<>>)
          ELSE IF \E k \in DOMAIN containers : ~containers[k].ok
            THEN AssignRes(FALSE, p.state, <<>>, <<>>)
          ELSE AssignRes(TRUE, p.state, p.slots,
                         [v \in 0..(MaxActive - 1) |-> AssignmentOf(containers, v)])

AssignActive == {<<0>>, <<0, 1, 2>>, <<0, 1, 3, 4>>}
AssignMixes == {0, 1}
SlotRoot(slot) == <<"sroot", slot>>
\* The state roots of the slots: one of them may be the zero hash.
AssignRoots ==
  {[k \in 0..MaxAssignSlot |-> IF k = z THEN ZeroHash ELSE SlotRoot(k)] :
     z \in {1, 3, MaxAssignSlot + 1}}
AssignEpochs == 0..(SlotToEpoch(MaxAssignSlot) + 2)
AssignCall(op, pre, prec, epoch, ok, slots) ==
  [op |-> op, pre |-> pre, prec |-> prec, epoch |-> epoch, ok |-> ok, slots |-> slots]
NoAssignCall == AssignCall("none", <<>>, {}, 0, TRUE, <<>>)

InitAssign ==
  /\ \E active \in AssignActive, mix \in AssignMixes, roots \in AssignRoots :
       bstate = [state |-> [slot |-> 0, active |-> active, mix |-> mix, roots |-> roots],
                 pcache |-> {}]
  /\ last = NoAssignCall
  /\ nops = 0
  /\ StfIdle

\* The state goes on to the next slot.
OpAssignSlot ==
  /\ bstate.state.slot < MaxAssignSlot
  /\ bstate' = [bstate EXCEPT !.state.slot = @ + 1]
  /\ last' = NoAssignCall
  /\ UNCHANGED <<nops, stfVars>>

OpUpdateProposerIndicesInCache ==
  LET r == UpdateProposerIndicesInCache(bstate.pcache, bstate.state)
  IN /\ bstate' = [bstate EXCEPT !.pcache = r.pcache]
     /\ last' = AssignCall("UpdateProposerIndicesInCache", bstate.state, bstate.pcache,
                           0, r.ok, <<>>)
     /\ UNCHANGED <<nops, stfVars>>

OpCommitteeAssignments ==
  \E epoch \in AssignEpochs :
    LET r == CommitteeAssignments(bstate.state, epoch)
    IN /\ bstate' = [bstate EXCEPT !.state = r.state]
       /\ last' = AssignCall("CommitteeAssignments", bstate.state, bstate.pcache,
                             epoch, r.ok, r.slots)
       /\ UNCHANGED <<nops, stfVars>>

NextAssign ==
  \/ OpAssignSlot
  \/ OpUpdateProposerIndicesInCache
  \/ OpCommitteeAssignments

SpecAssign == InitAssign /\ [][NextAssign]_vars

\* The key UpdateProposerIndicesInCache looks for: the state root of the last
\* slot of the epoch current_epoch - 1 - MIN_SEED_LOOKAHEAD.
ProposerKey(s) == s.roots[EndSlot(CurrentEpoch(s) - 1 - MinSeedLookahead)]
ProposerKeyUsable(pc, s) ==
  /\ CurrentEpoch(s) > GenesisEpoch + MinSeedLookahead
  /\ ProposerKey(s) # ZeroHash
  /\ \A e \in pc : e.root # ProposerKey(s)
\* C31: UpdateProposerIndicesInCache adds exactly one entry, keyed by the root
\* of the last slot of epoch current_epoch - 1 - MIN_SEED_LOOKAHEAD and
\* holding the proposers of the SLOTS_PER_EPOCH slots of the current epoch in
\* order, when the epoch is late enough, the root is not zero and the key is
\* absent; otherwise it returns no error and leaves the cache as it was.
C31_ProposerIndicesCachedOnce ==
  last.op = "UpdateProposerIndicesInCache" =>
    /\ last.ok
    /\ IF ProposerKeyUsable(last.prec, last.pre)
         THEN /\ \E e \in bstate.pcache \ last.prec :
                   /\ bstate.pcache = last.prec \cup {e}
                   /\ e.root = ProposerKey(last.pre)
                   /\ Len(e.indices) = SlotsPerEpoch
                   /\ \A i \in 0..(SlotsPerEpoch - 1) :
                        LET at == SetSlot(last.pre, StartSlot(CurrentEpoch(last.pre)) + i)
                        IN /\ BeaconProposerIndex(at).ok
                           /\ e.indices[i + 1] = BeaconProposerIndex(at).index
         ELSE bstate.pcache = last.prec
C31_Witness ==
  /\ last.op = "UpdateProposerIndicesInCache"
  /\ ProposerKeyUsable(last.prec, last.pre)
  /\ last.prec # {}
  /\ Cardinality(bstate.pcache) = Cardinality(last.prec) + 1

\* The non-genesis slots of an epoch, in order.
NonGenesisSlots(epoch) ==
  LET from == IF StartSlot(epoch) = 0 THEN 1 ELSE StartSlot(epoch)
  IN [k \in 1..(EndSlot(epoch) - from + 1) |-> from + k - 1]
\* C32: CommitteeAssignments(state, epoch) with epoch earlier than the next
\* epoch sets the state's slot to each non-genesis slot of the epoch in turn
\* and leaves it at the last slot of the epoch; with the next epoch it
\* computes no proposer and leaves the slot; with a later epoch it returns an
\* error and leaves the state.
C32_AssignmentsMoveTheSlot ==
  last.op = "CommitteeAssignments" =>
    IF last.epoch > NextEpoch(last.pre)
      THEN ~last.ok /\ bstate.state = last.pre
    ELSE IF last.epoch = NextEpoch(last.pre)
      THEN last.ok /\ last.slots = <<>> /\ bstate.state = last.pre
    ELSE /\ last.ok
         /\ [k \in DOMAIN last.slots |-> last.slots[k][2]] = NonGenesisSlots(last.epoch)
         /\ bstate.state = SetSlot(last.pre, EndSlot(last.epoch))
C32_Witness ==
  /\ last.op = "CommitteeAssignments"
  /\ last.epoch < NextEpoch(last.pre)
  /\ last.ok
  /\ bstate.state.slot # last.pre.slot
  /\ bstate.state.slot = EndSlot(last.epoch)

(***************************************************************************)
(* A trie and its copy: a trie is built, copied by CopyTrie, and the       *)
(* original and the copy are recomputed in any order.  bstate holds the    *)
(* memory, the original, the copy (once made) and the elements either was  *)
(* last recomputed for.                                                    *)
(***************************************************************************)
MaxCopyOps == 2
CopyElements(field) ==
  IF fieldMap(field) = "basicArray"
    THEN {<<1, 1, 1, 1>>, <<1, 2, 1, 2>>, <<2, 2, 2, 1>>}
    ELSE {<<>>, <<1>>, <<2, 1>>, <<1, 1, 2>>}
NoTrie == TrieObject("none", <<>>, 0)
CopyCall(op, on, ok, root) == [op |-> op, on |-> on, ok |-> ok, root |-> root]

InitCopy ==
  /\ \E field \in TrieFields, reference \in {1, 2} : \E elems \in CopyElements(field) :
       LET o == NewTrieObject(<<>>, NewFieldTrie(field, ElementsOf(field, elems), FieldLength))
       IN bstate = [heap |-> o.heap,
                    orig |-> [o.trie EXCEPT !.reference = reference],
                    copy |-> NoTrie]
  /\ last = CopyCall("NewFieldTrie", "orig", TRUE, ZeroBytes)
  /\ nops = 0
  /\ StfIdle

OpCopyTrieOfOriginal ==
  /\ bstate.copy = NoTrie
  /\ LET c == CopyTrie(bstate.heap, bstate.orig)
     IN /\ bstate' = [bstate EXCEPT !.heap = c.heap, !.copy = c.trie]
        /\ last' = CopyCall("CopyTrie", "orig", TRUE, TrieRoot(ContentOf(c.heap, c.trie)))
  /\ UNCHANGED <<nops, stfVars>>

OpRecomputeOriginal ==
  /\ nops < MaxCopyOps
  /\ \E elems \in CopyElements(bstate.orig.field), indices \in IndexLists :
       LET r == RecomputeTrieAt(bstate.heap, bstate.orig, indices, ElementsOf(bstate.orig.field, elems))
       IN /\ bstate' = [bstate EXCEPT !.heap = r.heap]
          /\ last' = CopyCall("RecomputeTrie", "orig", r.ok, r.root)
  /\ nops' = nops + 1
  /\ UNCHANGED stfVars

OpRecomputeCopy ==
  /\ nops < MaxCopyOps
  /\ bstate.copy # NoTrie
  /\ \E elems \in CopyElements(bstate.copy.field), indices \in IndexLists :
       LET r == RecomputeTrieAt(bstate.heap, bstate.copy, indices, ElementsOf(bstate.copy.field, elems))
       IN /\ bstate' = [bstate EXCEPT !.heap = r.heap]
          /\ last' = CopyCall("RecomputeTrie", "copy", r.ok, r.root)
  /\ nops' = nops + 1
  /\ UNCHANGED stfVars

NextCopy ==
  \/ OpCopyTrieOfOriginal
  \/ OpRecomputeOriginal
  \/ OpRecomputeCopy

SpecCopy == InitCopy /\ [][NextCopy]_vars

RootOf(h, f) == TrieRoot(ContentOf(h, f))
\* C33: the trie CopyTrie returns has a reference count of 1 and the root of
\* the original; a RecomputeTrie on the copy leaves the root and the layers
\* of the original as they were, and a RecomputeTrie on the original leaves
\* the root of the copy as it was.
C33_CopyIsIndependent ==
  [][/\ (last'.op = "CopyTrie" /\ last' # last) =>
          /\ bstate'.copy.reference = 1
          /\ RootOf(bstate'.heap, bstate'.copy) = RootOf(bstate.heap, bstate.orig)
          /\ RootOf(bstate'.heap, bstate'.orig) = RootOf(bstate.heap, bstate.orig)
     /\ (nops' # nops /\ last'.on = "copy") =>
          /\ LayersOf(bstate'.heap, bstate'.orig) = LayersOf(bstate.heap, bstate.orig)
          /\ RootOf(bstate'.heap, bstate'.orig) = RootOf(bstate.heap, bstate.orig)
     /\ (nops' # nops /\ last'.on = "orig" /\ bstate.copy # NoTrie) =>
          RootOf(bstate'.heap, bstate'.copy) = RootOf(bstate.heap, bstate.copy)]_vars
\* A copy of a trie held twice was recomputed to another root, then the
\* original was.
C33_Witness ==
  /\ bstate.copy # NoTrie
  /\ bstate.orig.reference = 2 /\ bstate.copy.reference = 1
  /\ nops = MaxCopyOps
  /\ last.op = "RecomputeTrie" /\ last.on = "orig" /\ last.ok
  /\ RootOf(bstate.heap, bstate.copy) # RootOf(bstate.heap, bstate.orig)
  /\ RootOf(bstate.heap, bstate.copy) # TrieRoot(NewFieldTrie(bstate.orig.field, ElementsOf(bstate.orig.field, <<1, 1, 1, 1>>), FieldLength))

(***************************************************************************)
(* RecomputeTrie on any input: a trie of either field kind, or the trie    *)
(* without layers NewFieldTrie returns for a field that is not an array;   *)
(* elements of either type and of any length, the empty list included;     *)
(* any list of changed indices.                                            *)
(***************************************************************************)
AnyFields == TrieFields \cup {"slot"}
ElementTypes == {"[][]byte", "[]*ethpb.Validator"}
AnyLists == UNION {[1..n -> TrieElems] : n \in 0..MaxElems}
AnyElements == {Elements(type, val) : type \in ElementTypes, val \in AnyLists}
AnyTries ==
  {NewFieldTrie(field, ElementsOf(field, elems), FieldLength) :
     field \in {"blockRoots"}, elems \in [1..FieldLength -> TrieElems]}
  \cup {NewFieldTrie("validators", ElementsOf("validators", elems), FieldLength) :
          elems \in AnyLists}
  \cup {NewFieldTrie("slot", NilElements, FieldLength)}
AnyCall(op, r, indices, elements, pre) ==
  [op |-> op, ok |-> r.ok, root |-> r.root, indices |-> indices, elements |-> elements,
   pre |-> pre]

InitAny ==
  /\ \E f \in AnyTries : bstate = f
  /\ last = AnyCall("NewFieldTrie", TrieRes(TRUE, ZeroBytes, <<>>), <<>>, NilElements, <<>>)
  /\ nops = 0
  /\ StfIdle

OpRecomputeAny ==
  /\ nops = 0
  /\ \E elements \in AnyElements, indices \in IndexLists :
       LET r == RecomputeTrie(bstate, indices, elements)
       IN /\ bstate' = IF r.ok THEN FieldTrie(bstate.field, r.layers) ELSE bstate
          /\ last' = AnyCall("RecomputeTrie", r, indices, elements, bstate.fieldLayers)
  /\ nops' = 1
  /\ UNCHANGED stfVars

NextAny ==
  \/ OpRecomputeAny

SpecAny == InitAny /\ [][NextAny]_vars

ReturnedError == ~last.ok /\ last.root = ZeroBytes
OutOfBounds(indices, val) == \E k \in 1..Len(indices) : indices[k] >= Len(val)
RightType(field, elements) == elements.type = ElementsOf(field, <<>>).type
\* C34: RecomputeTrie returns an error and leaves the layers of the trie as
\* they were whenever a changed index is out of bounds for the elements, for
\* either field kind and any length of the elements, the empty list
\* included; an unrecognized field and elements of the wrong type give an
\* error as well.
C34_OutOfBoundsIsAnError ==
  (last.op = "RecomputeTrie" /\ last.indices # <<>>) =>
    /\ (fieldMap(bstate.field) = "none" \/ ~RightType(bstate.field, last.elements))
         => ReturnedError
    /\ (fieldMap(bstate.field) # "none" /\ RightType(bstate.field, last.elements)
          /\ OutOfBounds(last.indices, last.elements.val))
         => ReturnedError /\ bstate.fieldLayers = last.pre
\* The state C34 excludes: the elements are the empty list of the field's
\* type, an index is named, and the call gives no error.
C34_Witness ==
  /\ last.op = "RecomputeTrie"
  /\ last.indices # <<>>
  /\ fieldMap(bstate.field) # "none"
  /\ RightType(bstate.field, last.elements)
  /\ last.elements.val = <<>>
  /\ ~ReturnedError
\* With elements present an index out of bounds is an error; so are an
\* unrecognized field and elements of another type; the trie is as it was.
NonEmptyOutOfBoundsIsAnError ==
  (last.op = "RecomputeTrie" /\ last.indices # <<>>) =>
    /\ (fieldMap(bstate.field) = "none" \/ ~RightType(bstate.field, last.elements))
         => ReturnedError /\ bstate.fieldLayers = last.pre
    /\ (fieldMap(bstate.field) # "none" /\ RightType(bstate.field, last.elements)
          /\ last.elements.val # <<>> /\ OutOfBounds(last.indices, last.elements.val))
         => ReturnedError /\ bstate.fieldLayers = last.pre

(***************************************************************************)
(* The lock of the chain info (blockchain/chain_info.go).  Caller threads  *)
(* run the accessors of the service while the service updates the head,    *)
(* the three checkpoints and the genesis time under the write lock of     *)
(* headLock.  A field holds the number of times it was written.            *)
(***************************************************************************)
MaxWrites == 2
Callers == {1, 2}
\* The accessors that take headLock.RLock and release it on return.
LockingAccessors ==
  {"HeadSlot", "HeadRoot", "HeadBlock", "HeadState", "HeadValidatorsIndices", "HeadSeed",
   "HeadGenesisValidatorRoot", "HeadETH1Data", "GenesisValidatorRoot", "CurrentFork"}
\* The accessors that read their field straight away.
PlainAccessors ==
  {"FinalizedCheckpt", "CurrentJustifiedCheckpt", "PreviousJustifiedCheckpt", "GenesisTime"}
Accessors == LockingAccessors \cup PlainAccessors
ServiceFields ==
  {"head", "finalizedCheckpt", "justifiedCheckpt", "prevJustifiedCheckpt", "genesisTime"}
FieldRead(acc) ==
  IF acc \in LockingAccessors THEN "head"
  ELSE IF acc = "FinalizedCheckpt" THEN "finalizedCheckpt"
  ELSE IF acc = "CurrentJustifiedCheckpt" THEN "justifiedCheckpt"
  ELSE IF acc = "PreviousJustifiedCheckpt" THEN "prevJustifiedCheckpt"
  ELSE "genesisTime"
TakesReadLock(acc) == acc \in LockingAccessors

IdleCaller == [pc |-> "idle", acc |-> "none"]
LockCall(op, caller, acc, holds, writing, value) ==
  [op |-> op, caller |-> caller, acc |-> acc, holds |-> holds, writing |-> writing,
   value |-> value]
NoLockCall == LockCall("none", 0, "none", FALSE, FALSE, 0)

InitLock ==
  /\ bstate = [fields |-> [f \in ServiceFields |-> 0],
               readers |-> {}, writer |-> FALSE, wpc |-> "idle", nwrites |-> 0,
               callers |-> [c \in Callers |-> IdleCaller]]
  /\ last = NoLockCall
  /\ nops = 0
  /\ StfIdle

\* A caller enters an accessor.
OpCallAccessor ==
  \E c \in Callers, acc \in Accessors :
    /\ bstate.callers[c].pc = "idle"
    /\ bstate' = [bstate EXCEPT !.callers[c] =
                    [pc |-> IF TakesReadLock(acc) THEN "rlock" ELSE "read", acc |-> acc]]
    /\ last' = NoLockCall
    /\ UNCHANGED <<nops, stfVars>>
\* s.headLock.RLock()
OpRLock ==
  \E c \in Callers :
    /\ bstate.callers[c].pc = "rlock"
    /\ ~bstate.writer
    /\ bstate' = [bstate EXCEPT !.readers = @ \cup {c}, !.callers[c].pc = "read"]
    /\ last' = NoLockCall
    /\ UNCHANGED <<nops, stfVars>>
\* The accessor reads its field.
OpReadField ==
  \E c \in Callers :
    LET acc == bstate.callers[c].acc
    IN /\ bstate.callers[c].pc = "read"
       /\ bstate' = [bstate EXCEPT !.callers[c] =
                       IF c \in bstate.readers THEN [pc |-> "runlock", acc |-> acc]
                       ELSE IdleCaller]
       /\ last' = LockCall("read", c, acc, c \in bstate.readers,
                           bstate.wpc = FieldRead(acc), bstate.fields[FieldRead(acc)])
       /\ UNCHANGED <<nops, stfVars>>
\* defer s.headLock.RUnlock()
OpRUnlock ==
  \E c \in Callers :
    /\ bstate.callers[c].pc = "runlock"
    /\ bstate' = [bstate EXCEPT !.readers = @ \ {c}, !.callers[c] = IdleCaller]
    /\ last' = NoLockCall
    /\ UNCHANGED <<nops, stfVars>>
\* The service takes the write lock.
OpLock ==
  /\ bstate.wpc = "idle" /\ ~bstate.writer /\ bstate.readers = {}
  /\ bstate.nwrites < MaxWrites
  /\ bstate' = [bstate EXCEPT !.writer = TRUE, !.wpc = "locked"]
  /\ last' = NoLockCall
  /\ UNCHANGED <<nops, stfVars>>
\* The service starts to update a field, and ends the update.
OpBeginWrite ==
  \E f \in ServiceFields :
    /\ bstate.wpc = "locked"
    /\ bstate.nwrites < MaxWrites
    /\ bstate' = [bstate EXCEPT !.wpc = f, !.nwrites = @ + 1]
    /\ last' = NoLockCall
    /\ UNCHANGED <<nops, stfVars>>
OpEndWrite ==
  /\ bstate.wpc \in ServiceFields
  /\ bstate' = [bstate EXCEPT !.fields[bstate.wpc] = @ + 1, !.wpc = "locked"]
  /\ last' = NoLockCall
  /\ UNCHANGED <<nops, stfVars>>
OpUnlock ==
  /\ bstate.wpc = "locked"
  /\ bstate' = [bstate EXCEPT !.writer = FALSE, !.wpc = "idle"]
  /\ last' = NoLockCall
  /\ UNCHANGED <<nops, stfVars>>

NextLock ==
  \/ OpCallAccessor
  \/ OpRLock
  \/ OpReadField
  \/ OpRUnlock
  \/ OpLock
  \/ OpBeginWrite
  \/ OpEndWrite
  \/ OpUnlock

SpecLock == InitLock /\ [][NextLock]_vars

\* C35: every accessor that reads the head, one of the three checkpoints or
\* the genesis time holds the read lock while it reads, so that none reads a
\* field while the writer that holds the write lock is updating it.
C35_AccessorsHoldTheReadLock ==
  last.op = "read" => last.holds /\ ~last.writing
\* The state C35 excludes: FinalizedCheckpt reads the finalized checkpoint,
\* without the lock, while the service is updating it under the write lock.
C35_Witness ==
  /\ last.op = "read"
  /\ last.acc = "FinalizedCheckpt"
  /\ ~last.holds
  /\ last.writing
  /\ bstate.writer /\ bstate.wpc = "finalizedCheckpt"
\* The accessors of the head hold the read lock and never read during an
\* update; the write lock is never held along with a read lock.
HeadAccessorsHoldTheReadLock ==
  /\ (last.op = "read" /\ TakesReadLock(last.acc)) => last.holds /\ ~last.writing
  /\ ~(bstate.writer /\ bstate.readers # {})

(***************************************************************************)
(* ProcessSlot on its own: a state some slots after genesis, whose latest  *)
(* block header has no state root (as a block leaves it), a nil one or the *)
(* one an earlier ProcessSlot gave it; ProcessSlot is applied, and the     *)
(* slot is moved on.                                                       *)
(***************************************************************************)
MaxSlotCalls == 3
SlotStartStates == {Genesis, GenesisTwo}
HeaderStateRoots == {ZeroHash, NilRoot, <<"sroot", "block">>}
SlotInputs ==
  {[AdvanceSlots(g, k) EXCEPT !.lbh.sroot = r] :
     g \in SlotStartStates, k \in 0..MaxSlot, r \in HeaderStateRoots}
SlotCall(op, pre) == [op |-> op, pre |-> pre]

InitSlot ==
  /\ bstate \in SlotInputs
  /\ last = SlotCall("none", bstate)
  /\ nops = 0
  /\ StfIdle

OpProcessSlotAlone ==
  /\ nops < MaxSlotCalls
  /\ bstate' = ProcessSlot(bstate)
  /\ last' = SlotCall("ProcessSlot", bstate)
  /\ nops' = nops + 1
  /\ UNCHANGED stfVars
\* state.SetSlot(state.Slot() + 1), the header being replaced by that of a
\* block or not.
OpSlotMovedOn ==
  /\ nops < MaxSlotCalls
  /\ bstate.slot < MaxSlot + 1
  /\ \E clear \in BOOLEAN :
       bstate' = [bstate EXCEPT !.slot = @ + 1,
                                !.lbh.sroot = IF clear THEN ZeroHash ELSE @]
  /\ last' = SlotCall("SetSlot", bstate)
  /\ nops' = nops + 1
  /\ UNCHANGED stfVars

NextSlot ==
  \/ OpProcessSlotAlone
  \/ OpSlotMovedOn

SpecSlot == InitSlot /\ [][NextSlot]_vars

RootUnset(root) == root = NilRoot \/ root = ZeroHash
\* C36: ProcessSlot on a state at slot k stores the root of the state it was
\* given in state_roots[k mod SLOTS_PER_HISTORICAL_ROOT], sets the state root
\* of the latest block header to that root only if it was nil or zero, then
\* stores the root of the header in block_roots[k mod
\* SLOTS_PER_HISTORICAL_ROOT]; the slot and every other entry of the two
\* buffers are as they were.
C36_ProcessSlotFrame ==
  last.op = "ProcessSlot" =>
    LET pre == last.pre
        k == RootIndex(pre.slot)
    IN /\ bstate.sroots[k] = HashTreeRoot(pre)
       /\ bstate.lbh.sroot = IF RootUnset(pre.lbh.sroot) THEN HashTreeRoot(pre)
                             ELSE pre.lbh.sroot
       /\ bstate.lbh = [pre.lbh EXCEPT !.sroot = bstate.lbh.sroot]
       /\ bstate.broots[k] = HeaderRoot(bstate.lbh)
       /\ bstate.slot = pre.slot
       /\ \A i \in 1..SlotsPerHistoricalRoot :
            i # k => bstate.sroots[i] = pre.sroots[i] /\ bstate.broots[i] = pre.broots[i]
       /\ bstate = [pre EXCEPT !.sroots = bstate.sroots, !.broots = bstate.broots,
                               !.lbh = bstate.lbh]
\* A header state root that was set is kept, in a slot whose buffer entries
\* held the roots of an earlier slot.
C36_Witness ==
  /\ last.op = "ProcessSlot"
  /\ ~RootUnset(last.pre.lbh.sroot)
  /\ bstate.lbh.sroot = last.pre.lbh.sroot
  /\ last.pre.slot >= SlotsPerHistoricalRoot
  /\ last.pre.sroots[RootIndex(last.pre.slot)] # ZeroHash
  /\ bstate.sroots[RootIndex(last.pre.slot)] # last.pre.sroots[RootIndex(last.pre.slot)]

(***************************************************************************)
(* The loop of ProcessSlots step by step: ProcessSlot, the epoch           *)
(* processing and the slot increment of an iteration are steps of their    *)
(* own, and the context may be cancelled between any two of them.          *)
(***************************************************************************)
MaxStepCalls == 2
MaxStepSlot == 2

\* Faulty variant: the context is looked at before every step of an iteration.
CancelChecked_everyStep(l) == l.pc \in {"loop", "epoch", "incr"}
\* line 366: ctx.Err() is tested at the head of an iteration.
CancelChecked(l) == l.pc = "loop"

\* lines 366-375: the cancelled call stores its state when it is past the
\* high-water mark and returns.
LoopCancelled(p) ==
  /\ CancelChecked(procs[p])
  /\ LoopContinues(procs[p].state, procs[p].slot)
  /\ procs[p].cancelled
  /\ cache' = PutIfAdvanced(procs[p], cache)
  /\ procs' = [procs EXCEPT ![p].pc = "unmark", ![p].ok = FALSE]
  /\ UNCHANGED <<inProgress, ncalls, opsVars>>
\* line 376
ProcessSlotStep(p) ==
  /\ procs[p].pc = "loop"
  /\ LoopContinues(procs[p].state, procs[p].slot)
  /\ ~procs[p].cancelled
  /\ procs' = [procs EXCEPT ![p] =
                 [WithState(procs[p], ProcessSlot(procs[p].state)) EXCEPT !.pc = "epoch"]]
  /\ UNCHANGED <<cache, inProgress, ncalls, opsVars>>
\* lines 381-387
EpochStep(p) ==
  /\ procs[p].pc = "epoch"
  /\ procs' = [procs EXCEPT ![p] =
                 [(IF CanProcessEpoch(procs[p].state)
                     THEN WithState(procs[p], ProcessEpochPrecompute(procs[p].state))
                     ELSE procs[p]) EXCEPT !.pc = "incr"]]
  /\ UNCHANGED <<cache, inProgress, ncalls, opsVars>>
\* lines 388-391
SetSlotStep(p) ==
  /\ procs[p].pc = "incr"
  /\ procs' = [procs EXCEPT ![p] =
                 [WithState(procs[p], [procs[p].state EXCEPT !.slot = @ + 1])
                    EXCEPT !.pc = "loop"]]
  /\ UNCHANGED <<cache, inProgress, ncalls, opsVars>>
\* ProcessSlot, ProcessEpochPrecompute or SetSlot returns an error.
StepError(p) ==
  /\ \/ procs[p].pc = "loop" /\ LoopContinues(procs[p].state, procs[p].slot)
          /\ ~procs[p].cancelled
     \/ procs[p].pc = "epoch" /\ CanProcessEpoch(procs[p].state)
     \/ procs[p].pc = "incr"
  /\ procs' = [procs EXCEPT ![p].pc = "unmark", ![p].ok = FALSE]
  /\ UNCHANGED <<cache, inProgress, ncalls, opsVars>>
CancelAnywhere(p) ==
  /\ procs[p].pc \in {"get1", "mark", "loop", "epoch", "incr"}
  /\ ~procs[p].cancelled
  /\ procs' = [procs EXCEPT ![p].cancelled = TRUE]
  /\ UNCHANGED <<cache, inProgress, ncalls, opsVars>>

NextSteps ==
  \E p \in Procs :
    \/ \E slot \in 0..MaxStepSlot :
         ncalls < MaxStepCalls /\ CallProcessSlots(p, Genesis, slot)
    \/ Get1(p)
    \/ MarkInProgress(p)
    \/ Get2(p)
    \/ LoopCancelled(p)
    \/ ProcessSlotStep(p)
    \/ EpochStep(p)
    \/ SetSlotStep(p)
    \/ StepError(p)
    \/ LoopExit(p)
    \/ MarkNotInProgress(p)
    \/ CancelAnywhere(p)
    \/ Return(p)

SpecSteps == Init /\ [][NextSteps]_vars

InLoop(l) == l.pc \in {"loop", "epoch", "incr"}
EpochBoundary(k) == (k + 1) % SlotsPerEpoch = 0
BoundariesIn(from, to) == Cardinality({k \in from..(to - 1) : EpochBoundary(k)})
\* C37: while ProcessSlots advances a state from slot s to slot t, the epoch
\* is processed once for every slot k in [s, t) with (k + 1) mod
\* SLOTS_PER_EPOCH = 0 and for no other slot, after process_slot of slot k
\* and before the slot becomes k + 1; a call that adopted a cached state at
\* slot c processes the epoch only for the boundaries in [c, t).
C37_EpochProcessedAtBoundaries ==
  [][\A p \in Procs :
       LET l == procs[p]
           m == procs'[p]
       IN /\ (l.pc = "loop" /\ m.pc = "epoch") =>
               /\ m.state = ProcessSlot(l.state)
               /\ l.highestSlot <= l.state.slot /\ l.state.slot < l.slot
          /\ (l.pc = "epoch" /\ m.pc = "incr") =>
               /\ m.state.slot = l.state.slot
               /\ m.state.epochs = l.state.epochs + (IF EpochBoundary(l.state.slot) THEN 1 ELSE 0)
          /\ (l.pc = "incr" /\ m.pc = "loop") =>
               m.state = [l.state EXCEPT !.slot = @ + 1]
          /\ (InLoop(l) /\ m.state.epochs # l.state.epochs) =>
               l.pc = "epoch" /\ m.pc = "incr"
          /\ (m.pc = "done" /\ m.ok) =>
               /\ m.state.slot = m.slot
               /\ m.state.epochs = m.input.epochs + BoundariesIn(m.input.slot, m.slot)]_vars
\* A call for slot 2 has adopted a state cached at slot 1, processed the
\* epoch at slot 1 and returned.
C37_Witness ==
  \E p \in Procs :
    /\ procs[p].pc = "done" /\ procs[p].ok
    /\ procs[p].adopted /\ procs[p].highestSlot = 1 /\ procs[p].slot = 2
    /\ procs[p].state.epochs = procs[p].input.epochs + 1

\* The states of whole slots: the starting state advanced by complete
\* iterations.
WholeSlotStates == {AdvanceSlots(Genesis, k) : k \in 0..MaxStepSlot}
\* C39: every state ProcessSlots stores in the skip-slot cache is the result
\* of complete loop iterations and is not past the target of the call that
\* stored it, on the success path and on the cancellation path alike.
C39_CachedStatesAreWholeSlots ==
  [][/\ \A e \in cache' : e.state \in WholeSlotStates
     /\ \A p \in Procs :
          (procs'[p] # procs[p] /\ cache' # cache) =>
            /\ CacheHas(cache', procs[p].key)
            /\ CacheGet(cache', procs[p].key) = procs[p].state
            /\ procs[p].state.slot <= procs[p].slot]_vars
\* A call cancelled in the middle of an iteration has ended that iteration
\* and stored the state of slot 1, short of its target.
C39_Witness ==
  \E p \in Procs :
    /\ procs[p].pc = "unmark" /\ procs[p].cancelled /\ ~procs[p].ok
    /\ procs[p].slot = 2 /\ procs[p].state.slot = 1
    /\ CacheHas(cache, procs[p].key) /\ CacheGet(cache, procs[p].key) = procs[p].state

(***************************************************************************)
(* ProcessSlotsUsingNextSlotCache next to ProcessSlots: a caller hands     *)
(* both the same state, skip-slot cache and target.                        *)
(***************************************************************************)
MaxNextCalls == 3

NextCall(op, pre, slot, hit, r, plain) ==
  [op |-> op, pre |-> pre, slot |-> slot, hit |-> hit, ok |-> r.ok, ret |-> r.ret,
   plainOk |-> plain.ok, plainRet |-> plain.ret]

NoNextCall ==
  NextCall("none", Genesis, 0, FALSE, Rejected(Genesis, {}), Rejected(Genesis, {}))

InitNext ==
  /\ bstate = Genesis
  /\ last = NoNextCall
  /\ nops = 0
  /\ cache = {}
  /\ StfIdle

OpProcessSlotsUsingNextSlotCache ==
  \E slot \in 0..MaxSlot, hit \in BOOLEAN :
    LET r == ReturnState(ProcessSlotsUsingNextSlotCache(Local(bstate, TRUE), BlockRootOf(bstate),
                                                        slot, cache, Background.slots, hit))
        plain == ReturnState(ProcessSlotsAlone(Local(bstate, TRUE), slot, cache, Background.slots))
    IN /\ nops < MaxNextCalls
       /\ last' = NextCall("ProcessSlotsUsingNextSlotCache", bstate, slot, hit, r, plain)
       /\ bstate' = IF r.ok THEN r.ret[1] ELSE r.obj
       /\ cache' = r.cache
       /\ nops' = nops + 1
       /\ UNCHANGED <<procs, inProgress, ncalls>>

NextNext ==
  \/ OpProcessSlotsUsingNextSlotCache

SpecNext == InitNext /\ [][NextNext]_vars

UsedNextSlotCache == last.op = "ProcessSlotsUsingNextSlotCache"
\* C38: ProcessSlotsUsingNextSlotCache(parent_state, parent_root, target) has
\* the outcome of ProcessSlots(parent_state, target): it fails when
\* ProcessSlots fails because the state is at or past the target, and on
\* success it returns the state ProcessSlots returns, at slot target, with or
\* without a state for parent_root in the next-slot cache.
C38_SameOutcomeAsProcessSlots ==
  UsedNextSlotCache =>
    /\ last.ok = last.plainOk
    /\ last.ok => last.ret = last.plainRet /\ last.ret[1].slot = last.slot
\* A call for the slot the state is at has returned a state without error.
C38_Witness ==
  /\ UsedNextSlotCache
  /\ last.slot <= last.pre.slot /\ last.pre.slot > 0
  /\ last.ok /\ ~last.plainOk
\* A call for the slot the state is at, with the next-slot cache holding the
\* state of the following slot, has returned a state past its target.
ReturnedPastTarget ==
  UsedNextSlotCache /\ last.hit /\ last.ok /\ last.ret[1].slot > last.slot
\* For a target ahead of the state the two functions agree.
AheadOfStateSameOutcome ==
  (UsedNextSlotCache /\ last.slot > last.pre.slot) =>
    /\ last.ok = last.plainOk
    /\ last.ok => last.ret = last.plainRet /\ last.ret[1].slot = last.slot

\* The call of task p set the in-progress mark of its key and is advancing
\* slots or about to run its deferred MarkNotInProgress.
AdvancingUnderMark(p) == procs[p].marked /\ procs[p].pc \in {"loop", "unmark"}
\* C40: only the ProcessSlots call that set the in-progress mark of a key
\* clears it: a call that found the key already in progress does not mark
\* it not in progress when it returns, so the key stays in progress while the
\* call that marked it is advancing slots.
C40_OnlyTheMarkerClears ==
  /\ [][\A p \in Procs :
          (procs[p].pc = "unmark" /\ procs'[p].pc = "done" /\ ~procs[p].marked) =>
            inProgress' = inProgress]_vars
  /\ [](\A p \in Procs : AdvancingUnderMark(p) => procs[p].key \in inProgress)
\* A call that found the key in progress has returned and cleared the mark
\* while the call that set the mark is still in its loop.
C40_Witness ==
  \E p, q \in Procs :
    /\ procs[p].marked /\ procs[p].pc = "loop" /\ procs[p].key \notin inProgress
    /\ procs[q].pc = "done" /\ procs[q].ok /\ ~procs[q].marked
    /\ procs[q].key = procs[p].key

====
